---- MODULE Spec2Model ----
(***************************************************************************)
(* Verification model of thrawn01/tag-manager: the tag extractor and its   *)
(* filters (scanner.go), the validator (validator.go), and the update and  *)
(* batch-replace engines (manager.go).                                     *)
(*                                                                         *)
(* A Go string is a sequence of one-character strings; "\n" is the newline *)
(* character.  All text is ASCII, so bytes and characters coincide.        *)
(***************************************************************************)
EXTENDS Integers, Sequences, FiniteSets, TLC

VARIABLES
    text,       \* ExtractTags / DetectTopOfFileHashtags: the text given to the function
    meta,       \* serializeFrontmatter: the metadata mapping given to the function
    minCount,   \* ListAllTags argument
    scanned,    \* ListAllTags: the files whose records the sequence yielded without error
    cfg,        \* the Config shared by scanner and validator
    out,        \* the value the function returned (NoResult before the call)
    xpc,        \* position of the caller of the pure functions
    fs,         \* the files: absolute path -> [content, mode]; a path outside
                \* the domain does not exist; mode "rw", "ro" (read-only) or
                \* "noread" (not readable)
    rootPath,   \* UpdateTags / ReplaceTagsBatch argument
    addTags,    \* UpdateTags argument
    removeTags, \* UpdateTags argument
    filePaths,  \* UpdateTags argument
    dryRun,     \* UpdateTags / ReplaceTagsBatch argument
    ops,        \* UpdateTags: resolvedAddTags and resolvedRemoveTags
    idx,        \* UpdateTags: index of the next entry of filePaths
    result,     \* UpdateTags: the TagUpdateResult under construction
    uerr,       \* UpdateTags: the returned error (NoError when none)
    upc,        \* UpdateTags: "call", "loop", "done"
    round,      \* number of the UpdateTags call in progress (1 or 2)
    reads,      \* paths given to os.ReadFile by the current call
    writes,     \* paths given to os.WriteFile by the current call
    outcomes,   \* per entry of filePaths processed so far: how its iteration ended
    fs0,        \* the files when the current call started
    prev,       \* the result and the files at the end of the first call
    replacements,   \* ReplaceTagsBatch argument: pairs [OldTag, NewTag]
    cancelled,      \* ReplaceTagsBatch: ctx.Err() != nil
    filesToProcess, \* ReplaceTagsBatch: the candidate files
    pending,        \* ReplaceTagsBatch: candidates the range loop has not visited
    rresult,        \* ReplaceTagsBatch: the TagReplaceResult under construction
    rerr,           \* ReplaceTagsBatch: the returned error (NoError when none)
    rpc,            \* ReplaceTagsBatch: "call", "loop", "done"
    tree,       \* ScanDirectory: the entries WalkDir visits, in its lexical order
    wpos,       \* ScanDirectory: index in tree of the entry WalkDir is at
    visitErr,   \* ScanDirectory: the next callback reports the ReadDir error of the entry
    fileInfo,   \* ScanDirectory: what ScanFile returned for the entry
    werr,       \* ScanDirectory: the error WalkDir returned (NoError when none)
    ctxDone,    \* ScanDirectory: ctx.Err() != nil
    stopped,    \* the consumer of the sequence has returned false
    trace,      \* ScanDirectory: the file reads, the calls of yield, the first
                \* false of the consumer and the cancellation, in order
    spc,        \* ScanDirectory: position of the iterator
    uheld,      \* UpdateTags: the file read and not yet written back, [path, content]
    rheld,      \* replaceTagsInFile: the file read and not yet written back
    lost,       \* the writes that replaced a content other than the one read
    edits       \* number of writes made by the external writer

extractVars == <<text, meta, minCount, scanned, cfg, out, xpc>>

updateVars == <<fs, rootPath, addTags, removeTags, filePaths, dryRun, ops, idx,
                result, uerr, upc, round, reads, writes, outcomes, fs0, prev>>

replaceVars == <<replacements, cancelled, filesToProcess, pending, rresult, rerr, rpc>>

scanVars == <<tree, wpos, visitErr, fileInfo, werr, ctxDone, stopped, trace, spc>>

raceVars == <<uheld, rheld, lost, edits>>

vars == <<extractVars, updateVars, replaceVars, scanVars, raceVars>>

NoResult == "none"

-----------------------------------------------------------------------------
(* Characters and the Go strings package                                    *)

LowerSeq == <<"a","b","c","d","e","f","g","h","i","j","k","l","m",
              "n","o","p","q","r","s","t","u","v","w","x","y","z">>

UpperSeq == <<"A","B","C","D","E","F","G","H","I","J","K","L","M",
              "N","O","P","Q","R","S","T","U","V","W","X","Y","Z">>

LowerChars == {LowerSeq[i] : i \in 1..26}

UpperChars == {UpperSeq[i] : i \in 1..26}

DigitChars == {"0","1","2","3","4","5","6","7","8","9"}

IsLetter(c) == c \in LowerChars \/ c \in UpperChars

IsAlnum(c) == IsLetter(c) \/ c \in DigitChars

\* regexp \w
IsWordChar(c) == IsAlnum(c) \/ c = "_"

\* regexp \s and unicode.IsSpace on ASCII
IsSpace(c) == c \in {" ", "\t", "\n", "\r", "\f"}

ToLowerChar(c) ==
    IF c \in UpperChars THEN LowerSeq[CHOOSE i \in 1..26 : UpperSeq[i] = c] ELSE c

ToLower(s) == [i \in 1..Len(s) |-> ToLowerChar(s[i])]

EqualFold(a, b) == ToLower(a) = ToLower(b)

HasPrefixAt(s, i, p) ==
    /\ i + Len(p) - 1 <= Len(s)
    /\ SubSeq(s, i, i + Len(p) - 1) = p

HasPrefix(s, p) == HasPrefixAt(s, 1, p)

HasSuffix(s, p) == Len(p) <= Len(s) /\ SubSeq(s, Len(s) - Len(p) + 1, Len(s)) = p

\* strings.Index(s[from..], sub) as an absolute 1-based index, 0 when absent
IndexFrom(s, sub, from) ==
    LET hits == {i \in from..(Len(s) - Len(sub) + 1) : HasPrefixAt(s, i, sub)}
    IN  IF hits = {} THEN 0 ELSE CHOOSE i \in hits : \A j \in hits : i <= j

Contains(s, sub) == IndexFrom(s, sub, 1) # 0

TrimPrefix(s, p) == IF HasPrefix(s, p) THEN SubSeq(s, Len(p) + 1, Len(s)) ELSE s

TrimSpace(s) ==
    LET keep == {i \in 1..Len(s) : ~IsSpace(s[i])}
    IN  IF keep = {} THEN <<>>
        ELSE SubSeq(s, CHOOSE i \in keep : \A j \in keep : i <= j,
                       CHOOSE i \in keep : \A j \in keep : j <= i)

\* strings.Trim(s, cutset)
TrimSet(s, cutset) ==
    LET keep == {i \in 1..Len(s) : s[i] \notin cutset}
    IN  IF keep = {} THEN <<>>
        ELSE SubSeq(s, CHOOSE i \in keep : \A j \in keep : i <= j,
                       CHOOSE i \in keep : \A j \in keep : j <= i)

\* strings.TrimLeft(s, cutset)
TrimLeft(s, cutset) ==
    LET keep == {i \in 1..Len(s) : s[i] \notin cutset}
    IN  IF keep = {} THEN <<>>
        ELSE SubSeq(s, CHOOSE i \in keep : \A j \in keep : i <= j, Len(s))

RECURSIVE SplitFrom(_, _, _)
SplitFrom(s, sep, from) ==
    LET hits == {i \in from..Len(s) : s[i] = sep}
    IN  IF hits = {} THEN <<SubSeq(s, from, Len(s))>>
        ELSE LET k == CHOOSE i \in hits : \A j \in hits : i <= j
             IN  <<SubSeq(s, from, k - 1)>> \o SplitFrom(s, sep, k + 1)

\* strings.Split(s, sep) for a one-character separator
Split(s, sep) == SplitFrom(s, sep, 1)

RECURSIVE Join(_, _)
\* strings.Join(parts, sep) for a one-character separator
Join(parts, sep) ==
    IF Len(parts) = 0 THEN <<>>
    ELSE IF Len(parts) = 1 THEN parts[1]
    ELSE parts[1] \o <<sep>> \o Join(Tail(parts), sep)

RECURSIVE FieldsFrom(_, _)
FieldsFrom(s, from) ==
    LET starts == {i \in from..Len(s) : ~IsSpace(s[i])}
    IN  IF starts = {} THEN <<>>
        ELSE LET b == CHOOSE i \in starts : \A j \in starts : i <= j
                 stops == {i \in b..Len(s) : IsSpace(s[i])}
                 e == IF stops = {} THEN Len(s) + 1
                      ELSE CHOOSE i \in stops : \A j \in stops : i <= j
             IN  <<SubSeq(s, b, e - 1)>> \o FieldsFrom(s, e)

\* strings.Fields(s)
Fields(s) == FieldsFrom(s, 1)

Range(f) == {f[i] : i \in DOMAIN f}

\* the ASCII characters the model uses, in byte order (the order of sort.Strings)
AsciiSeq == <<"\t", "\n", "\f", "\r", " ", "\"", "#", "'", ",", "-", ".", "/",
              "0","1","2","3","4","5","6","7","8","9", ":", "@">>
            \o UpperSeq \o <<"[", "]", "_">> \o LowerSeq

CharRank(c) == CHOOSE i \in 1..Len(AsciiSeq) : AsciiSeq[i] = c

RECURSIVE StrLess(_, _)
StrLess(a, b) ==
    IF Len(b) = 0 THEN FALSE
    ELSE IF Len(a) = 0 THEN TRUE
    ELSE IF CharRank(a[1]) # CharRank(b[1]) THEN CharRank(a[1]) < CharRank(b[1])
    ELSE StrLess(Tail(a), Tail(b))

RECURSIVE SortStrings(_)
\* sort.Strings: insertion of the head into the sorted tail
SortStrings(q) ==
    IF Len(q) <= 1 THEN q
    ELSE LET rest == SortStrings(Tail(q))
             pos == Cardinality({i \in 1..Len(rest) : StrLess(rest[i], q[1])})
         IN  SubSeq(rest, 1, pos) \o <<q[1]>> \o SubSeq(rest, pos + 1, Len(rest))

-----------------------------------------------------------------------------
(* Config                                                                   *)

\* DefaultConfig.  MaxDigitRatio 0.5 is kept as the fraction RatioNum/RatioDen;
\* the three regular expressions are the default ones, modelled by
\* FindAllHashtags, YamlTagMatch and YamlListMatch below.
DefaultConfig ==
    [MinTagLength    |-> 3,
     RatioNum        |-> 1,
     RatioDen        |-> 2,
     ExcludeKeywords |-> << <<"b","i","b","r">>, <<"f","t","n">>,
                            <<"i","s","s","u","e","c","o","m","m","e","n","t">>,
                            <<"d","i","s","c","u","s","s","i","o","n">>,
                            <<"d","i","f","f","-">> >>,
     ExcludeDirs     |-> { <<"1","0","0"," ","A","r","c","h","i","v","e">>,
                           <<"A","t","t","a","c","h","m","e","n","t","s">>,
                           <<".","g","i","t">> },
     \* "*.excalidraw.md": the text after the star
     ExcludePatterns |-> { <<".","e","x","c","a","l","i","d","r","a","w",".","m","d">> }]

-----------------------------------------------------------------------------
(* scanner.go: the extractor and its filters                                *)

isHexColor(tag) ==
    /\ Len(tag) = 3 \/ Len(tag) = 6
    /\ \A i \in 1..Len(tag) :
          tag[i] \in DigitChars \cup {"a","b","c","d","e","f","A","B","C","D","E","F"}

\* the longest run of consecutive digits ending at position i
RECURSIVE DigitRun(_, _)
DigitRun(tag, i) ==
    IF i = 0 \/ tag[i] \notin DigitChars THEN 0 ELSE 1 + DigitRun(tag, i - 1)

looksLikeID(tag) ==
    IF Len(tag) < 8 THEN FALSE
    ELSE LET hasUpperCase == \E i \in 1..Len(tag) : tag[i] \in UpperChars
             hasLowerCase == \E i \in 1..Len(tag) : tag[i] \in LowerChars
             hasDigit == \E i \in 1..Len(tag) : tag[i] \in DigitChars
             maxConsecutive == IF Len(tag) = 0 THEN 0
                 ELSE CHOOSE m \in 0..Len(tag) :
                        /\ \E i \in 1..Len(tag) : DigitRun(tag, i) = m
                        /\ \A i \in 1..Len(tag) : DigitRun(tag, i) <= m
         IN  \/ maxConsecutive > 4
             \/ hasUpperCase /\ hasLowerCase /\ hasDigit /\ Len(tag) > 12

urlPatterns ==
    { <<"h","t","t","p">>, <<"h","t","t","p","s">>, <<"f","t","p">>, <<"w","w","w">>,
      <<".","c","o","m">>, <<".","o","r","g">>, <<".","n","e","t">>,
      <<"l","o","c","a","l","h","o","s","t">>,
      <<"1","2","7",".","0",".","0",".","1">>, <<":",":","1">> }

isURLFragment(tag) == \E p \in urlPatterns : Contains(ToLower(tag), p)

DigitCount(tag) == Cardinality({i \in 1..Len(tag) : tag[i] \in DigitChars})

isValidTag(tag, c) ==
    /\ Len(tag) >= c.MinTagLength
    /\ \A k \in 1..Len(c.ExcludeKeywords) : ~Contains(ToLower(tag), c.ExcludeKeywords[k])
    /\ ~isHexColor(tag)
    /\ ~looksLikeID(tag)
    /\ ~isURLFragment(tag)
    /\ DigitCount(tag) * c.RatioDen <= c.RatioNum * Len(tag)

\* the last index of the run of characters of class [\w\-] that starts at i
RECURSIVE TagRunEnd(_, _)
TagRunEnd(s, i) ==
    IF i + 1 <= Len(s) /\ (IsWordChar(s[i + 1]) \/ s[i + 1] = "-")
    THEN TagRunEnd(s, i + 1) ELSE i

RECURSIVE FindAllHashtagsFrom(_, _)
FindAllHashtagsFrom(s, i) ==
    IF i > Len(s) THEN <<>>
    ELSE IF s[i] = "#" /\ i + 1 <= Len(s) /\ IsLetter(s[i + 1])
         THEN LET j == TagRunEnd(s, i + 1)
              IN  <<SubSeq(s, i, j)>> \o FindAllHashtagsFrom(s, j + 1)
         ELSE FindAllHashtagsFrom(s, i + 1)

\* hashtagPattern.FindAllString(content, -1) for the pattern #[a-zA-Z][\w\-]*
FindAllHashtags(s) == FindAllHashtagsFrom(s, 1)

\* one occurrence of hashtag at absolute index idx: the tests on the
\* neighbouring characters
BoundaryOKAt(content, hashtag, at) ==
    LET validBefore ==
            \/ at = 1
            \/ ~(content[at - 1] = "@" \/ IsAlnum(content[at - 1])
                 \/ content[at - 1] = "-" \/ content[at - 1] = "_")
        endIndex == at + Len(hashtag)
        validAfter ==
            \/ endIndex > Len(content)
            \/ ~(IsAlnum(content[endIndex]) \/ content[endIndex] = "-"
                 \/ content[endIndex] = "_")
    IN  validBefore /\ validAfter

RECURSIVE BoundaryScan(_, _, _)
BoundaryScan(content, hashtag, start) ==
    LET at == IndexFrom(content, hashtag, start)
    IN  IF at = 0 THEN FALSE
        ELSE IF BoundaryOKAt(content, hashtag, at) THEN TRUE
        ELSE BoundaryScan(content, hashtag, at + 1)

\* a rescan that judges the first occurrence only
checkHashtagBoundary_FirstOnly(content, hashtag) ==
    /\ IndexFrom(content, hashtag, 1) # 0
    /\ BoundaryOKAt(content, hashtag, IndexFrom(content, hashtag, 1))

checkHashtagBoundary(content, hashtag) == BoundaryScan(content, hashtag, 1)

\* the hashtag stage of ExtractTags
HashtagStage(content, c) ==
    LET matches == FindAllHashtags(content)
    IN  {TrimPrefix(matches[k], <<"#">>) : k \in
            {k \in 1..Len(matches) :
                /\ isValidTag(TrimPrefix(matches[k], <<"#">>), c)
                /\ checkHashtagBoundary(content, matches[k])}}

MinOf(S) == CHOOSE i \in S : \A j \in S : i <= j

MaxOf(S) == CHOOSE i \in S : \A j \in S : j <= i

\* the positions at which (?m)^ matches before a character
LineStarts(s) == {i \in 1..Len(s) : i = 1 \/ s[i - 1] = "\n"}

SkipSpace(s, i) ==
    LET rest == {j \in i..Len(s) : ~IsSpace(s[j])}
    IN  IF rest = {} THEN Len(s) + 1 ELSE MinOf(rest)

LineEnd(s, i) ==
    LET rest == {j \in i..Len(s) : s[j] = "\n"}
    IN  IF rest = {} THEN Len(s) + 1 ELSE MinOf(rest)

\* yamlTagPattern (?m)^tags:\s*\[([^\]]+)\] tried at line start p: the
\* captured group, as <<first, last>>, or <<>> when it does not match at p
YamlTagAt(s, p) ==
    IF ~HasPrefixAt(s, p, <<"t","a","g","s",":">>) THEN <<>>
    ELSE LET q == SkipSpace(s, p + 5)
         IN  IF q > Len(s) \/ s[q] # "[" THEN <<>>
             ELSE LET r == IndexFrom(s, <<"]">>, q + 1)
                  IN  IF r = 0 \/ r = q + 1 THEN <<>> ELSE <<q + 1, r - 1>>

\* yamlTagPattern.FindStringSubmatch(content)[1]: the leftmost match
YamlTagMatch(s) ==
    LET ps == {p \in LineStarts(s) : YamlTagAt(s, p) # <<>>}
    IN  IF ps = {} THEN <<>>
        ELSE <<SubSeq(s, YamlTagAt(s, MinOf(ps))[1], YamlTagAt(s, MinOf(ps))[2])>>

\* one iteration of (?:\s+-\s+.+\n?) started at g, without the optional
\* newline: the index after the text matched by .+ , or 0 when it fails
ItemEnd(s, g) ==
    LET a == SkipSpace(s, g)
    IN  IF a = g \/ a > Len(s) \/ s[a] # "-" THEN 0
        ELSE LET w == SkipSpace(s, a + 1)
             IN  IF w = a + 1 THEN 0
                 ELSE IF w <= Len(s) THEN LineEnd(s, w)
                 ELSE LET ts == {t \in (a + 2)..Len(s) : s[t] # "\n"}
                      IN  IF ts = {} THEN 0 ELSE MaxOf(ts) + 1

RECURSIVE ItemsEnd(_, _)
ItemsEnd(s, pos) ==
    IF ItemEnd(s, pos) = 0 THEN pos ELSE ItemsEnd(s, ItemEnd(s, pos))

\* yamlTagListPattern (?m)^tags:\s*$\n((?:\s+-\s+.+\n?)+) tried at line start
\* p: the captured group as <<first, last>>, or <<>>
YamlListAt(s, p) ==
    IF ~HasPrefixAt(s, p, <<"t","a","g","s",":">>) THEN <<>>
    ELSE LET es == {e \in (p + 5)..Len(s) :
                       /\ s[e] = "\n"
                       /\ \A j \in (p + 5)..(e - 1) : IsSpace(s[j])
                       /\ ItemEnd(s, e + 1) # 0}
         IN  IF es = {} THEN <<>>
             ELSE LET e == MaxOf(es)
                      n == ItemsEnd(s, e + 1)
                  IN  <<e + 1, IF n <= Len(s) /\ s[n] = "\n" THEN n ELSE n - 1>>

YamlListMatch(s) ==
    LET ps == {p \in LineStarts(s) : YamlListAt(s, p) # <<>>}
    IN  IF ps = {} THEN <<>>
        ELSE <<SubSeq(s, YamlListAt(s, MinOf(ps))[1], YamlListAt(s, MinOf(ps))[2])>>

Quotes == {"\"", "'"}

\* the inline-array stage of ExtractTags
YamlArrayStage(content, c) ==
    IF YamlTagMatch(content) = <<>> THEN {}
    ELSE LET parts == Split(YamlTagMatch(content)[1], ",")
         IN  {t \in {TrimSet(TrimSpace(parts[k]), Quotes) : k \in 1..Len(parts)} :
                 isValidTag(t, c)}

\* the list stage of ExtractTags
YamlListStage(content, c) ==
    IF YamlListMatch(content) = <<>> THEN {}
    ELSE LET lines == Split(YamlListMatch(content)[1], "\n")
         IN  {t \in {TrimSet(TrimSpace(TrimPrefix(TrimSpace(lines[k]), <<"-">>)), Quotes) :
                        k \in 1..Len(lines)} :
                 isValidTag(t, c)}

\* ExtractTags returns the keys of tagMap: a set, in no particular order
ExtractTags(content, c) ==
    HashtagStage(content, c) \cup YamlArrayStage(content, c) \cup YamlListStage(content, c)

-----------------------------------------------------------------------------
(* validator.go                                                             *)

\* ValidateTag: the issues it reports, as categories; IsValid is false
\* exactly when an issue is reported.  The configured patterns compile, so
\* the "Invalid regex configuration" branch is not taken.
ValidateTagIssues(tag, c) ==
    LET cleanTag == TrimPrefix(TrimSpace(tag), <<"#">>)
    IN  IF cleanTag = <<>> THEN {"empty"}
        ELSE  (IF Len(cleanTag) < c.MinTagLength THEN {"too-short"} ELSE {})
         \cup (IF ~IsLetter(cleanTag[1]) THEN {"start-letter"} ELSE {})
         \cup (IF \E i \in 1..Len(cleanTag) :
                     ~(IsAlnum(cleanTag[i]) \/ cleanTag[i] = "-" \/ cleanTag[i] = "_")
               THEN {"invalid-chars"} ELSE {})
         \cup (IF Contains(cleanTag, <<"-","-">>) THEN {"consecutive-hyphens"} ELSE {})
         \cup (IF isHexColor(cleanTag) THEN {"hex-color"} ELSE {})
         \cup (IF looksLikeID(cleanTag) THEN {"id-like"} ELSE {})
         \cup (IF isURLFragment(cleanTag) THEN {"url-fragment"} ELSE {})
         \cup (IF \E k \in 1..Len(c.ExcludeKeywords) :
                     Contains(ToLower(cleanTag), c.ExcludeKeywords[k])
               THEN {"excluded-keyword"} ELSE {})
         \cup (IF DigitCount(cleanTag) * c.RatioDen > c.RatioNum * Len(cleanTag)
               THEN {"digit-ratio"} ELSE {})

ValidateTag(tag, c) ==
    [IsValid |-> ValidateTagIssues(tag, c) = {}, Issues |-> ValidateTagIssues(tag, c)]

-----------------------------------------------------------------------------
(* gopkg.in/yaml.v3 as parseFrontmatter and serializeFrontmatter use it.    *)
(* The library is outside the repository; the model covers the subset of    *)
(* YAML the documents use: a top-level mapping whose values are plain or    *)
(* quoted scalars, flow sequences ([a, b]) or block sequences (- a).        *)
(* A scalar is [kind, val]: kind "str", "int" (digits only, unquoted) or    *)
(* "null"; a sequence is [kind |-> "list", items |-> <<scalars>>].          *)

\* the result of a scalar or sequence that does not parse
YamlError == [kind |-> "error", val |-> <<>>, items |-> <<>>]

\* the result of a document that does not parse
YamlFail == [err |-> TRUE, map |-> <<>>]

StrVal(v) == [kind |-> "str", val |-> v, items |-> <<>>]

ListVal(q) == [kind |-> "list", val |-> <<>>, items |-> q]

IsQuoted(raw) ==
    /\ Len(raw) >= 2
    /\ raw[1] \in Quotes
    /\ raw[Len(raw)] = raw[1]

\* the value of one scalar token, or YamlError
YamlScalar(raw) ==
    IF raw = <<>> THEN [kind |-> "null", val |-> <<>>, items |-> <<>>]
    ELSE IF IsQuoted(raw) THEN StrVal(SubSeq(raw, 2, Len(raw) - 1))
    ELSE IF raw[1] \in Quotes \/ raw[1] \in {"[", "]", ","} THEN YamlError
    ELSE IF \A i \in 1..Len(raw) : raw[i] \in DigitChars
         THEN [kind |-> "int", val |-> raw, items |-> <<>>]
    ELSE StrVal(raw)

\* a flow sequence "[a, b]", or YamlError
YamlFlowSeq(raw) ==
    IF raw[Len(raw)] # "]" \/ Contains(SubSeq(raw, 2, Len(raw) - 1), <<"[">>)
       \/ Contains(SubSeq(raw, 2, Len(raw) - 1), <<"]">>)
    THEN YamlError
    ELSE LET inner == TrimSpace(SubSeq(raw, 2, Len(raw) - 1))
             parts == Split(inner, ",")
             vals == [k \in 1..Len(parts) |-> YamlScalar(TrimSpace(parts[k]))]
         IN  IF inner = <<>> THEN ListVal(<<>>)
             ELSE IF \E k \in 1..Len(parts) :
                        vals[k] = YamlError \/ TrimSpace(parts[k]) = <<>>
                  THEN YamlError
             ELSE ListVal(vals)

IsSeqItemLine(line) ==
    LET t == TrimSpace(line)
    IN  t = <<"-">> \/ HasPrefix(t, <<"-", " ">>)

RECURSIVE BlockItemsEnd(_, _)
\* the index after the run of block-sequence item lines that starts at i
BlockItemsEnd(lines, i) ==
    IF i <= Len(lines) /\ IsSeqItemLine(lines[i]) THEN BlockItemsEnd(lines, i + 1) ELSE i

IsYamlSkipLine(line) == TrimSpace(line) = <<>> \/ HasPrefix(TrimSpace(line), <<"#">>)

RECURSIVE YamlEntries(_, _, _)
\* the mapping parsed from lines[i..], added to acc; YamlFail when a line is
\* no mapping entry, a value is ill-formed or a key is repeated
YamlEntries(lines, i, acc) ==
    IF i > Len(lines) THEN [err |-> FALSE, map |-> acc]
    ELSE IF IsYamlSkipLine(lines[i]) THEN YamlEntries(lines, i + 1, acc)
    ELSE LET line == lines[i]
             colon == IndexFrom(line, <<":">>, 1)
             key == SubSeq(line, 1, colon - 1)
             rest == TrimSpace(SubSeq(line, colon + 1, Len(line)))
         IN  IF \/ colon <= 1
                \/ ~IsLetter(line[1])
                \/ \E k \in 1..Len(key) : ~(IsWordChar(key[k]) \/ key[k] = "-")
                \/ (colon < Len(line) /\ line[colon + 1] # " ")
                \/ key \in DOMAIN acc
             THEN YamlFail
             ELSE IF rest = <<>>
             THEN LET n == BlockItemsEnd(lines, i + 1)
                      items == [k \in 1..(n - i - 1) |->
                                  YamlScalar(TrimSpace(TrimPrefix(TrimSpace(lines[i + k]), <<"-">>)))]
                  IN  IF \E k \in 1..(n - i - 1) : items[k] = YamlError THEN YamlFail
                      ELSE YamlEntries(lines, n,
                               acc @@ (key :> (IF n = i + 1 THEN YamlScalar(<<>>) ELSE ListVal(items))))
             ELSE IF rest[1] = "["
             THEN IF YamlFlowSeq(rest) = YamlError THEN YamlFail
                  ELSE YamlEntries(lines, i + 1, acc @@ (key :> YamlFlowSeq(rest)))
             ELSE IF YamlScalar(rest) = YamlError THEN YamlFail
                  ELSE YamlEntries(lines, i + 1, acc @@ (key :> YamlScalar(rest)))

\* yaml.Unmarshal into a map[string]interface{}
YamlUnmarshal(txt) == YamlEntries(Split(txt, "\n"), 1, <<>>)

\* the encoder writes a string plain when that reads back as the same string
YamlPlainOK(v) ==
    /\ v # <<>>
    /\ IsLetter(v[1])
    /\ \A i \in 1..Len(v) : IsWordChar(v[i]) \/ v[i] \in {"-", ".", " "}
    /\ ~IsSpace(v[Len(v)])

YamlEmitScalar(x) ==
    IF x.kind = "null" THEN <<"n","u","l","l">>
    ELSE IF x.kind = "int" THEN x.val
    ELSE IF YamlPlainOK(x.val) THEN x.val
    ELSE IF x.val = <<>> \/ \A i \in 1..Len(x.val) : x.val[i] \in DigitChars
         THEN <<"\"">> \o x.val \o <<"\"">>
    ELSE <<"'">> \o x.val \o <<"'">>

RECURSIVE YamlEmitItems(_)
\* a block sequence nested in a mapping: four spaces, "- ", the item
YamlEmitItems(items) ==
    IF Len(items) = 0 THEN <<>>
    ELSE <<" "," "," "," ","-"," ">> \o YamlEmitScalar(items[1]) \o <<"\n">>
         \o YamlEmitItems(Tail(items))

YamlEmitEntry(key, x) ==
    IF x.kind = "list"
    THEN IF Len(x.items) = 0 THEN key \o <<":"," ","[","]","\n">>
         ELSE key \o <<":","\n">> \o YamlEmitItems(x.items)
    ELSE key \o <<":"," ">> \o YamlEmitScalar(x) \o <<"\n">>

RECURSIVE SetToSeq(_)
SetToSeq(S) ==
    IF S = {} THEN <<>>
    ELSE LET x == CHOOSE y \in S : TRUE IN <<x>> \o SetToSeq(S \ {x})

RECURSIVE YamlEmitKeys(_, _)
YamlEmitKeys(keys, data) ==
    IF Len(keys) = 0 THEN <<>>
    ELSE YamlEmitEntry(keys[1], data[keys[1]]) \o YamlEmitKeys(Tail(keys), data)

\* a Marshal that writes the tags field only
YamlMarshal_TagsOnly(data) ==
    YamlEmitKeys(SortStrings(SetToSeq(DOMAIN data \cap {<<"t","a","g","s">>})), data)

\* yaml.Marshal of a map: the keys in sorted order
YamlMarshal(data) == YamlEmitKeys(SortStrings(SetToSeq(DOMAIN data)), data)

-----------------------------------------------------------------------------
(* manager.go: the update engine                                            *)

normalizeTag(tag) == TrimPrefix(TrimSpace(tag), <<"#">>)

normalizeTags(tags) == [i \in 1..Len(tags) |-> normalizeTag(tags[i])]

\* a membership test that compares case-sensitively
containsTag_Exact(tags, target) == \E i \in 1..Len(tags) : tags[i] = target

containsTag(tags, target) == \E i \in 1..Len(tags) : EqualFold(tags[i], target)

resolveTagConflicts(adds, removes) ==
    LET normalizedAddTags == normalizeTags(adds)
        normalizedRemoveTags == normalizeTags(removes)
        NoRemove(t) == ~containsTag(normalizedRemoveTags, t)
        NoAdd(t) == ~containsTag(normalizedAddTags, t)
        filteredAddTags == SelectSeq(normalizedAddTags, NoRemove)
        filteredRemoveTags == SelectSeq(normalizedRemoveTags, NoAdd)
    IN  IF Len(filteredAddTags) = 0 /\ Len(filteredRemoveTags) = 0
        THEN [err |-> TRUE, add |-> <<>>, remove |-> <<>>]
        ELSE [err |-> FALSE,
              add |-> SortStrings(filteredAddTags),
              remove |-> SortStrings(filteredRemoveTags)]

\* the first part of UpdateTags: conflicts are resolved unless both lists are
\* empty
ResolveOperations(adds, removes) ==
    IF Len(adds) > 0 \/ Len(removes) > 0
    THEN resolveTagConflicts(adds, removes)
    ELSE [err |-> FALSE, add |-> <<>>, remove |-> <<>>]

Dashes == <<"-","-","-">>

TagsKey == <<"t","a","g","s">>

\* a parse that never fails: a block that does not deserialize is body text
parseFrontmatter_Lenient(content) ==
    [err |-> FALSE, data |-> <<>>, body |-> content]

parseFrontmatter(content) ==
    LET lines == Split(content, "\n")
        ends == {i \in 2..Len(lines) : lines[i] = Dashes}
    IN  IF Len(lines) < 3 \/ lines[1] # Dashes \/ ends = {}
        THEN [err |-> FALSE, data |-> <<>>, body |-> content]
        ELSE LET endIdx == MinOf(ends)
                 frontmatterContent == Join(SubSeq(lines, 2, endIdx - 1), "\n")
                 parsed == IF frontmatterContent = <<>> THEN [err |-> FALSE, map |-> <<>>]
                           ELSE YamlUnmarshal(frontmatterContent)
             IN  IF parsed.err
                 THEN [err |-> TRUE, data |-> <<>>, body |-> <<>>]
                 ELSE [err |-> FALSE, data |-> parsed.map,
                       body |-> Join(SubSeq(lines, endIdx + 1, Len(lines)), "\n")]

serializeFrontmatter(data) ==
    IF DOMAIN data = {} THEN <<>>
    ELSE Dashes \o <<"\n">> \o YamlMarshal(data) \o Dashes \o <<"\n">>

\* the tags field as updateFrontmatterTags reads it: the string items of a
\* sequence, trimmed; nothing for any other shape
CurrentTags(data) ==
    IF TagsKey \in DOMAIN data /\ data[TagsKey].kind = "list"
    THEN LET IsStr(x) == x.kind = "str"
             strs == SelectSeq(data[TagsKey].items, IsStr)
         IN  [i \in 1..Len(strs) |-> TrimSpace(strs[i].val)]
    ELSE <<>>

\* an add loop that appends without looking at the current tags
AddLoop_NoLookup(adds, currentTags, addedTags) ==
    [current |-> currentTags \o adds, added |-> addedTags \o adds]

RECURSIVE AddLoop(_, _, _)
\* the add loop: a tag is appended unless its lower-case form is in tagSet
AddLoop(adds, currentTags, addedTags) ==
    IF Len(adds) = 0 THEN [current |-> currentTags, added |-> addedTags]
    ELSE IF \E i \in 1..Len(currentTags) : ToLower(currentTags[i]) = ToLower(adds[1])
         THEN AddLoop(Tail(adds), currentTags, addedTags)
         ELSE AddLoop(Tail(adds), Append(currentTags, adds[1]),
                      Append(addedTags, adds[1]))

updateFrontmatterTags(data, adds, removes) ==
    LET afterAdd == AddLoop(adds, CurrentTags(data), <<>>)
        ShouldRemove(t) == containsTag(removes, t)
        Keep(t) == ~containsTag(removes, t)
        removedTagsList == SelectSeq(afterAdd.current, ShouldRemove)
        filteredTags == SelectSeq(afterAdd.current, Keep)
        sorted == SortStrings(filteredTags)
    IN  [data |->
            IF Len(filteredTags) > 0 \/ Len(afterAdd.added) > 0
            THEN [k \in DOMAIN data \cup {TagsKey} |->
                    IF k = TagsKey
                    THEN ListVal([i \in 1..Len(sorted) |-> StrVal(sorted[i])])
                    ELSE data[k]]
            ELSE [k \in DOMAIN data \ {TagsKey} |-> data[k]],
         added |-> afterAdd.added,
         removed |-> removedTagsList]

IsWordAt(s, i) == i >= 1 /\ i <= Len(s) /\ IsWordChar(s[i])

\* regexp \b between positions i and i + 1
WordBoundaryAfter(s, i) == IsWordAt(s, i) # IsWordAt(s, i + 1)

RECURSIVE ReplaceWordFrom(_, _, _, _)
ReplaceWordFrom(s, lit, repl, i) ==
    IF i > Len(s) THEN <<>>
    ELSE IF HasPrefixAt(s, i, lit) /\ WordBoundaryAfter(s, i + Len(lit) - 1)
         THEN repl \o ReplaceWordFrom(s, lit, repl, i + Len(lit))
         ELSE <<s[i]>> \o ReplaceWordFrom(s, lit, repl, i + 1)

\* regexp.MustCompile(QuoteMeta(lit) + `\b`).ReplaceAllString(s, repl), for a
\* non-empty literal
ReplaceWord(s, lit, repl) == ReplaceWordFrom(s, lit, repl, 1)

RECURSIVE removeHashtagsFromBody(_, _)
removeHashtagsFromBody(content, tags) ==
    IF Len(tags) = 0 THEN content
    ELSE IF Len(normalizeTag(tags[1])) = 0
         THEN removeHashtagsFromBody(content, Tail(tags))
         ELSE removeHashtagsFromBody(
                  ReplaceWord(content, <<"#">> \o normalizeTag(tags[1]), <<>>), Tail(tags))

isHashtagOnlyLine(line) ==
    LET words == Fields(line)
    IN  /\ Len(words) # 0
        /\ \A i \in 1..Len(words) : HasPrefix(words[i], <<"#">>)

\* the 0-based line index the Go function returns
FindFirstNonHashtagContent(content) ==
    LET lines == Split(content, "\n")
        stops == {i \in 1..Len(lines) :
                     TrimSpace(lines[i]) # <<>> /\ ~isHashtagOnlyLine(TrimSpace(lines[i]))}
    IN  IF stops = {} THEN Len(lines) ELSE MinOf(stops) - 1

RECURSIVE WordTags(_)
\* the tags of the marker-prefixed words of one line, in order
WordTags(words) ==
    IF Len(words) = 0 THEN <<>>
    ELSE (IF HasPrefix(words[1], <<"#">>) /\ normalizeTag(words[1]) # <<>>
          THEN <<normalizeTag(words[1])>> ELSE <<>>) \o WordTags(Tail(words))

RECURSIVE TopTagsOfLines(_, _, _)
TopTagsOfLines(lines, i, boundary) ==
    IF i > boundary \/ i > Len(lines) THEN <<>>
    ELSE WordTags(Fields(TrimSpace(lines[i]))) \o TopTagsOfLines(lines, i + 1, boundary)

\* a collection that reads every line of the text, whatever the boundary
extractTopHashtags_AllLines(content, boundary) ==
    TopTagsOfLines(Split(content, "\n"), 1, Len(Split(content, "\n")))

extractTopHashtags(content, boundary) ==
    IF boundary = 0 THEN <<>>
    ELSE TopTagsOfLines(Split(content, "\n"), 1, boundary)

DetectTopOfFileHashtags(content) ==
    extractTopHashtags(content, FindFirstNonHashtagContent(content))

\* a removal that blanks the tag-only lines of the whole body
removeTopHashtags_AllLines(content, hashtags) ==
    IF Len(hashtags) = 0 THEN content
    ELSE LET lines == Split(content, "\n")
             blanked == [i \in 1..Len(lines) |->
                           IF TrimSpace(lines[i]) # <<>>
                              /\ isHashtagOnlyLine(TrimSpace(lines[i]))
                           THEN <<>> ELSE lines[i]]
         IN  TrimLeft(Join(blanked, "\n"), {"\n"})

removeTopHashtags(content, hashtags) ==
    IF Len(hashtags) = 0 THEN content
    ELSE LET lines == Split(content, "\n")
             boundary == FindFirstNonHashtagContent(content)
             blanked == [i \in 1..Len(lines) |->
                           IF i <= boundary /\ TrimSpace(lines[i]) # <<>>
                              /\ isHashtagOnlyLine(TrimSpace(lines[i]))
                           THEN <<>> ELSE lines[i]]
         IN  TrimLeft(Join(blanked, "\n"), {"\n"})

\* one match of the tags-array pattern starting at p:
\* (tags:\s*\[[^\]]*)"?old"?([^\]]*\]).  The first group is greedy, so the
\* entry replaced is the last occurrence of old before the closing bracket
\* and an opening quote, when there is one, stays in the first group; a
\* closing quote is dropped.  [at] is the index after the match, 0 for none.
ArrayMatchClosed(s, p, old, new, q, e) ==
    LET ks == {k \in (q + 1)..(e - Len(old)) : HasPrefixAt(s, k, old)}
        k == MaxOf(ks)
        g2 == IF s[k + Len(old)] = "\"" THEN k + Len(old) + 1 ELSE k + Len(old)
    IN  IF ks = {} THEN [at |-> 0, by |-> <<>>]
        ELSE [at |-> e + 1,
              by |-> SubSeq(s, p, k - 1) \o <<"\"">> \o new \o <<"\"">> \o SubSeq(s, g2, e)]

ArrayMatchOpen(s, p, old, new, q) ==
    IF q > Len(s) \/ s[q] # "[" \/ IndexFrom(s, <<"]">>, q + 1) = 0
    THEN [at |-> 0, by |-> <<>>]
    ELSE ArrayMatchClosed(s, p, old, new, q, IndexFrom(s, <<"]">>, q + 1))

ArrayMatchAt(s, p, old, new) ==
    IF ~HasPrefixAt(s, p, <<"t","a","g","s",":">>) THEN [at |-> 0, by |-> <<>>]
    ELSE ArrayMatchOpen(s, p, old, new, SkipSpace(s, p + 5))

\* one match of the list-item pattern starting at p:
\* (?m)(^\s+-\s+)"?old"?\s*$.  \s also matches newlines, so the match may
\* start on a blank line above the item and may take the newlines after it.
ListMatchTail(s, p, old, new, b, d) ==
    LET ends == {j \in d..SkipSpace(s, d) : j > Len(s) \/ s[j] = "\n"}
    IN  IF ends = {} THEN [at |-> 0, by |-> <<>>]
        ELSE [at |-> MaxOf(ends),
              by |-> SubSeq(s, p, b - 1) \o <<"\"">> \o new \o <<"\"">>]

ListMatchTag(s, p, old, new, b, c0) ==
    IF ~HasPrefixAt(s, c0, old) THEN [at |-> 0, by |-> <<>>]
    ELSE ListMatchTail(s, p, old, new, b,
             IF c0 + Len(old) <= Len(s) /\ s[c0 + Len(old)] = "\""
             THEN c0 + Len(old) + 1 ELSE c0 + Len(old))

ListMatchItem(s, p, old, new, a, b) ==
    IF a > Len(s) \/ s[a] # "-" \/ b = a + 1 \/ b > Len(s)
    THEN [at |-> 0, by |-> <<>>]
    ELSE ListMatchTag(s, p, old, new, b,
             IF s[b] = "\"" /\ HasPrefixAt(s, b + 1, old) THEN b + 1 ELSE b)

ListMatchDash(s, p, old, new, a) ==
    IF a = p THEN [at |-> 0, by |-> <<>>]
    ELSE ListMatchItem(s, p, old, new, a, SkipSpace(s, a + 1))

ListMatchAt(s, p, old, new) ==
    IF ~(p = 1 \/ s[p - 1] = "\n") THEN [at |-> 0, by |-> <<>>]
    ELSE ListMatchDash(s, p, old, new, SkipSpace(s, p))

RECURSIVE ReplaceArrayFrom(_, _, _, _)
ReplaceArrayStep(s, old, new, i, m) ==
    IF m.at # 0 THEN m.by \o ReplaceArrayFrom(s, old, new, m.at)
    ELSE <<s[i]>> \o ReplaceArrayFrom(s, old, new, i + 1)

\* yamlArrayPattern.ReplaceAllString from index i on
ReplaceArrayFrom(s, old, new, i) ==
    IF i > Len(s) THEN <<>>
    ELSE ReplaceArrayStep(s, old, new, i, ArrayMatchAt(s, i, old, new))

RECURSIVE ReplaceListFrom(_, _, _, _)
ReplaceListStep(s, old, new, i, m) ==
    IF m.at # 0 THEN m.by \o ReplaceListFrom(s, old, new, m.at)
    ELSE <<s[i]>> \o ReplaceListFrom(s, old, new, i + 1)

\* yamlListPattern.ReplaceAllString from index i on
ReplaceListFrom(s, old, new, i) ==
    IF i > Len(s) THEN <<>>
    ELSE ReplaceListStep(s, old, new, i, ListMatchAt(s, i, old, new))

\* the three substitutions of one replacement, for a non-empty old tag
ReplaceOne(content, oldTag, newTag) ==
    ReplaceListFrom(
        ReplaceArrayFrom(
            ReplaceWord(content, <<"#">> \o oldTag, <<"#">> \o newTag),
            oldTag, newTag, 1),
        oldTag, newTag, 1)

RECURSIVE ReplaceAllPairs(_, _)
\* the loop of replaceTagsInFile over the replacements
ReplaceAllPairs(content, pairs) ==
    IF Len(pairs) = 0 THEN content
    ELSE ReplaceAllPairs(
             ReplaceOne(content, normalizeTag(pairs[1].OldTag), normalizeTag(pairs[1].NewTag)),
             Tail(pairs))

RECURSIVE CleanSegs(_, _, _)
\* the path elements that survive filepath.Clean
CleanSegs(segs, acc, rooted) ==
    IF Len(segs) = 0 THEN acc
    ELSE IF segs[1] = <<>> \/ segs[1] = <<".">>
         THEN CleanSegs(Tail(segs), acc, rooted)
    ELSE IF segs[1] = <<".", ".">>
         THEN IF Len(acc) > 0 /\ acc[Len(acc)] # <<".", ".">>
              THEN CleanSegs(Tail(segs), SubSeq(acc, 1, Len(acc) - 1), rooted)
              ELSE IF rooted THEN CleanSegs(Tail(segs), acc, rooted)
              ELSE CleanSegs(Tail(segs), Append(acc, segs[1]), rooted)
    ELSE CleanSegs(Tail(segs), Append(acc, segs[1]), rooted)

IsAbs(path) == HasPrefix(path, <<"/">>)

\* filepath.Clean on a Unix path
Clean(path) ==
    IF path = <<>> THEN <<".">>
    ELSE LET joined == Join(CleanSegs(Split(path, "/"), <<>>, IsAbs(path)), "/")
         IN  IF IsAbs(path) THEN <<"/">> \o joined
             ELSE IF joined = <<>> THEN <<".">> ELSE joined

\* filepath.Join of two non-empty elements
PathJoin(a, b) == Clean(a \o <<"/">> \o b)

\* validator.ValidatePath(path) = nil
ValidatePath(path) ==
    /\ path # <<>>
    /\ IsAbs(path)
    /\ ~Contains(Clean(path), <<".", ".">>)

NoError == "nil"

ConflictErrorText ==
    "tag conflict resolution failed: no operations remain after conflict resolution"

EmptyResult ==
    [FilesMigrated |-> <<>>, ModifiedFiles |-> <<>>, TagsRemoved |-> <<>>,
     TagsAdded |-> <<>>, Errors |-> <<>>]

\* m[k]++ on a map[string]int
Inc(m, k) == IF k \in DOMAIN m THEN [m EXCEPT ![k] = @ + 1] ELSE m @@ (k :> 1)

RECURSIVE IncAll(_, _)
IncAll(m, keys) == IF Len(keys) = 0 THEN m ELSE IncAll(Inc(m, keys[1]), Tail(keys))

\* result.Errors = append(result.Errors, fmt.Sprintf("%s: %v", filePath, err));
\* the text of err is kept as one element
RecordError_NoPath(res, filePath, reason) ==
    [res EXCEPT !.Errors = Append(@, <<reason>>)]

RecordError(res, filePath, reason) ==
    [res EXCEPT !.Errors = Append(@, filePath \o <<":", " ">> \o <<reason>>)]

CanRead(fsX, path) == path \in DOMAIN fsX /\ fsX[path].mode # "noread"

ReadError(fsX, path) ==
    IF path \in DOMAIN fsX THEN "permission denied" ELSE "no such file or directory"

\* what one loop iteration found in a file whose metadata block does not parse
MalformedContent(originalContent) ==
    [malformed |-> TRUE, migrated |-> FALSE, top |-> <<>>, added |-> <<>>,
     removed |-> <<>>, modified |-> FALSE, newContent |-> originalContent]

\* the end of the content step: the counted tags, the modified flag and the
\* content the iteration wants on disk
ContentOutcome(originalContent, o, topHashtags, bodyContent, upd, modified) ==
    [malformed |-> FALSE,
     migrated |-> Len(topHashtags) > 0,
     top |-> topHashtags,
     added |-> LET Counted(t) == Len(topHashtags) = 0 \/ ~containsTag(topHashtags, t)
               IN  SelectSeq(upd.added, Counted),
     removed |-> upd.removed,
     modified |-> modified,
     newContent |->
         IF modified
         THEN serializeFrontmatter(upd.data) \o removeHashtagsFromBody(bodyContent, o.remove)
         ELSE originalContent]

ContentUpdated(originalContent, o, topHashtags, bodyContent, upd) ==
    ContentOutcome(originalContent, o, topHashtags, bodyContent, upd,
                   Len(topHashtags) > 0 \/ Len(upd.added) > 0 \/ Len(upd.removed) > 0)

\* the content step once the leading hashtags are known
ContentMigrated(originalContent, o, fm, topHashtags) ==
    ContentUpdated(originalContent, o, topHashtags,
                   IF Len(topHashtags) > 0 THEN removeTopHashtags(fm.body, topHashtags)
                   ELSE fm.body,
                   updateFrontmatterTags(fm.data, normalizeTags(o.add) \o topHashtags,
                                         normalizeTags(o.remove)))

ContentParsed(originalContent, o, fm) ==
    IF fm.err THEN MalformedContent(originalContent)
    ELSE ContentMigrated(originalContent, o, fm, DetectTopOfFileHashtags(fm.body))

\* the part of one loop iteration of UpdateTags between the read and the
\* write: what it found and the content it wants on disk
ProcessContent(originalContent, o) ==
    ContentParsed(originalContent, o, parseFrontmatter(originalContent))

FileStep(fsX, outcome, read, written, res) ==
    [fs |-> fsX, outcome |-> outcome, read |-> read, written |-> written, res |-> res]

\* the counters of the result after the content step of one file
CountTags(res, filePath, p) ==
    [res EXCEPT !.FilesMigrated = IF p.migrated THEN Append(@, filePath) ELSE @,
                !.TagsAdded = IncAll(IncAll(@, p.top), p.added),
                !.TagsRemoved = IncAll(@, p.removed)]

\* the end of one loop iteration: the write and the entry in ModifiedFiles
WriteBack(fsX, res, filePath, absolutePath, p, res1, dry) ==
    IF p.malformed
    THEN FileStep(fsX, "malformed", {absolutePath}, {},
                  RecordError(res, filePath, "malformed YAML frontmatter"))
    ELSE IF p.modified /\ ~dry
    THEN IF fsX[absolutePath].mode = "ro"
         THEN FileStep(fsX, "write-error", {absolutePath}, {absolutePath},
                       RecordError(res1, filePath, "permission denied"))
         ELSE FileStep([fsX EXCEPT ![absolutePath].content = p.newContent], "ok",
                       {absolutePath}, {absolutePath},
                       [res1 EXCEPT !.ModifiedFiles = Append(@, filePath)])
    ELSE FileStep(fsX, "ok", {absolutePath}, {},
                  IF p.modified
                  THEN [res1 EXCEPT !.ModifiedFiles = Append(@, filePath)]
                  ELSE res1)

ProcessedFile(fsX, res, filePath, absolutePath, p, dry) ==
    WriteBack(fsX, res, filePath, absolutePath, p, CountTags(res, filePath, p), dry)

\* one loop iteration from the joined path on
UpdateAtPath(fsX, res, filePath, absolutePath, o, dry) ==
    IF ~ValidatePath(absolutePath)
    THEN FileStep(fsX, "rejected", {}, {}, RecordError(res, filePath, "invalid path"))
    ELSE IF ~CanRead(fsX, absolutePath)
    THEN FileStep(fsX, "read-error", {absolutePath}, {},
                  RecordError(res, filePath, ReadError(fsX, absolutePath)))
    ELSE ProcessedFile(fsX, res, filePath, absolutePath,
                       ProcessContent(fsX[absolutePath].content, o), dry)

\* an iteration that joins every cleaned entry to the root
UpdateCleaned_Unchecked(fsX, res, filePath, cleanPath, root, o, dry) ==
    UpdateAtPath(fsX, res, filePath, PathJoin(root, cleanPath), o, dry)

\* an iteration that rejects absolute entries only
UpdateCleaned_ParentAllowed(fsX, res, filePath, cleanPath, root, o, dry) ==
    IF IsAbs(cleanPath)
    THEN FileStep(fsX, "rejected", {}, {},
                  RecordError(res, filePath,
                      "path must be relative to root and cannot contain '..'"))
    ELSE UpdateAtPath(fsX, res, filePath, PathJoin(root, cleanPath), o, dry)

UpdateCleaned(fsX, res, filePath, cleanPath, root, o, dry) ==
    IF IsAbs(cleanPath) \/ Contains(cleanPath, <<".", ".">>)
    THEN FileStep(fsX, "rejected", {}, {},
                  RecordError(res, filePath,
                      "path must be relative to root and cannot contain '..'"))
    ELSE UpdateAtPath(fsX, res, filePath, PathJoin(root, cleanPath), o, dry)

\* one iteration of the loop over filePaths
UpdateOneFile(fsX, res, filePath, root, o, dry) ==
    UpdateCleaned(fsX, res, filePath, Clean(filePath), root, o, dry)

\* the loop of UpdateTags run to its end over a list of entries
RECURSIVE UpdateLoop(_, _, _, _, _, _)
UpdateLoop(fsX, res, paths, root, o, dry) ==
    IF Len(paths) = 0
    THEN [fs |-> fsX, res |-> res]
    ELSE LET step == UpdateOneFile(fsX, res, paths[1], root, o, dry)
         IN  UpdateLoop(step.fs, step.res, Tail(paths), root, o, dry)

\* UpdateTags up to the loop: the root is validated and the conflicts resolved
UpdateStart ==
    /\ upc = "call"
    /\ \E resolved \in {ResolveOperations(addTags, removeTags)} :
          IF ~ValidatePath(rootPath)
          THEN /\ uerr' = "invalid root path"
               /\ upc' = "done"
               /\ UNCHANGED ops
          ELSE IF resolved.err
          THEN /\ uerr' = ConflictErrorText
               /\ upc' = "done"
               /\ UNCHANGED ops
          ELSE /\ ops' = [add |-> resolved.add, remove |-> resolved.remove]
               /\ upc' = "loop"
               /\ UNCHANGED uerr
    /\ UNCHANGED <<fs, rootPath, addTags, removeTags, filePaths, dryRun, idx, result,
                   round, reads, writes, outcomes, fs0, prev>>
    /\ UNCHANGED extractVars
    /\ UNCHANGED replaceVars
    /\ UNCHANGED scanVars
    /\ UNCHANGED raceVars

\* one iteration of the loop; every path through it ends in the next entry
UpdateFile ==
    /\ upc = "loop"
    /\ idx <= Len(filePaths)
    /\ \E step \in {UpdateOneFile(fs, result, filePaths[idx], rootPath, ops, dryRun)} :
          /\ fs' = step.fs
          /\ result' = step.res
          /\ reads' = reads \cup step.read
          /\ writes' = writes \cup step.written
          /\ outcomes' = Append(outcomes, step.outcome)
    /\ idx' = idx + 1
    /\ UNCHANGED <<rootPath, addTags, removeTags, filePaths, dryRun, ops, uerr, upc,
                   round, fs0, prev>>
    /\ UNCHANGED extractVars
    /\ UNCHANGED replaceVars
    /\ UNCHANGED scanVars
    /\ UNCHANGED raceVars

UpdateReturn ==
    /\ upc = "loop"
    /\ idx > Len(filePaths)
    /\ upc' = "done"
    /\ UNCHANGED <<fs, rootPath, addTags, removeTags, filePaths, dryRun, ops, idx,
                   result, uerr, round, reads, writes, outcomes, fs0, prev>>
    /\ UNCHANGED extractVars
    /\ UNCHANGED replaceVars
    /\ UNCHANGED scanVars
    /\ UNCHANGED raceVars

\* the caller repeats the call with the same arguments
UpdateAgain ==
    /\ upc = "done"
    /\ round = 1
    /\ uerr = NoError
    /\ prev' = [result |-> result, fs |-> fs, outcomes |-> outcomes]
    /\ round' = 2
    /\ upc' = "call"
    /\ idx' = 1
    /\ result' = EmptyResult
    /\ reads' = {}
    /\ writes' = {}
    /\ outcomes' = <<>>
    /\ fs0' = fs
    /\ UNCHANGED <<fs, rootPath, addTags, removeTags, filePaths, dryRun, ops, uerr>>
    /\ UNCHANGED extractVars
    /\ UNCHANGED replaceVars
    /\ UNCHANGED scanVars
    /\ UNCHANGED raceVars

NextUpdate == UpdateStart \/ UpdateFile \/ UpdateReturn \/ UpdateAgain

-----------------------------------------------------------------------------
(* manager.go: the batch-replace engine                                     *)

\* the path relative to the root, for a path below it
RelPath(root, path) == SubSeq(path, Len(root) + 2, Len(path))

\* filepath.Base of a path that does not end in a separator
Base(path) ==
    LET seps == {i \in 1..Len(path) : path[i] = "/"}
    IN  IF seps = {} THEN path ELSE SubSeq(path, MaxOf(seps) + 1, Len(path))

\* the files for which the walk of ScanDirectory calls ScanFile
WalkedFiles(fsX, root, c) ==
    {path \in DOMAIN fsX :
        /\ HasPrefix(path, root \o <<"/">>)
        /\ \A exclude \in c.ExcludeDirs : ~Contains(RelPath(root, path), exclude)
        /\ HasSuffix(path, <<".", "m", "d">>)
        /\ \A pattern \in c.ExcludePatterns : ~HasSuffix(Base(path), pattern)}

\* FindFilesByTags for one tag: the walked files that can be read and whose
\* extracted tags hold the tag
FindFilesByTags(fsX, tag, root, c) ==
    {path \in WalkedFiles(fsX, root, c) :
        /\ CanRead(fsX, path)
        /\ normalizeTag(tag) \in
              {normalizeTag(t) : t \in ExtractTags(fsX[path].content, c)}}

\* the first loop of ReplaceTagsBatch: the candidates of all replacements
CandidateFiles(fsX, pairs, root, c) ==
    UNION {FindFilesByTags(fsX, normalizeTag(pairs[k].OldTag), root, c) :
              k \in 1..Len(pairs)}

\* a write that does not look at the dry-run flag
WriteReplaced_IgnoresDryRun(fsX, filePath, modifiedContent, dry) ==
    IF modifiedContent # fsX[filePath].content
    THEN IF fsX[filePath].mode = "ro"
         THEN [fs |-> fsX, err |-> "permission denied"]
         ELSE [fs |-> [fsX EXCEPT ![filePath].content = modifiedContent], err |-> NoError]
    ELSE [fs |-> fsX, err |-> NoError]

\* the end of replaceTagsInFile: the write, unless nothing changed or dry run
WriteReplaced(fsX, filePath, modifiedContent, dry) ==
    IF modifiedContent # fsX[filePath].content /\ ~dry
    THEN IF fsX[filePath].mode = "ro"
         THEN [fs |-> fsX, err |-> "permission denied"]
         ELSE [fs |-> [fsX EXCEPT ![filePath].content = modifiedContent], err |-> NoError]
    ELSE [fs |-> fsX, err |-> NoError]

replaceTagsInFile(fsX, filePath, pairs, dry) ==
    IF ~CanRead(fsX, filePath) THEN [fs |-> fsX, err |-> ReadError(fsX, filePath)]
    ELSE WriteReplaced(fsX, filePath, ReplaceAllPairs(fsX[filePath].content, pairs), dry)

EmptyReplaceResult == [ModifiedFiles |-> <<>>, FailedFiles |-> <<>>, Errors |-> <<>>]

\* a failure that is reported in Errors but leaves the file out of FailedFiles
RecordReplaced_FailureUnlisted(res, file, err) ==
    IF err # NoError
    THEN [res EXCEPT !.Errors = Append(@, file \o <<":", " ">> \o <<err>>)]
    ELSE [res EXCEPT !.ModifiedFiles = Append(@, file)]

\* the body of the second loop after replaceTagsInFile returned err
RecordReplaced(res, file, err) ==
    IF err # NoError
    THEN [res EXCEPT !.FailedFiles = Append(@, file),
                     !.Errors = Append(@, file \o <<":", " ">> \o <<err>>)]
    ELSE [res EXCEPT !.ModifiedFiles = Append(@, file)]

\* ReplaceTagsBatch up to the second loop: the root is validated and the
\* candidates are collected; a context cancelled before the walk ends it at
\* its first step
ReplaceStart ==
    /\ rpc = "call"
    /\ IF ~ValidatePath(rootPath)
       THEN /\ rerr' = "invalid root path"
            /\ rpc' = "done"
            /\ UNCHANGED <<filesToProcess, pending>>
       ELSE /\ \E found \in {IF cancelled THEN {}
                             ELSE CandidateFiles(fs, replacements, rootPath, cfg)} :
                  filesToProcess' = found /\ pending' = found
            /\ rpc' = "loop"
            /\ UNCHANGED rerr
    /\ UNCHANGED <<replacements, cancelled, rresult>>
    /\ UNCHANGED updateVars
    /\ UNCHANGED extractVars
    /\ UNCHANGED scanVars
    /\ UNCHANGED raceVars

\* one iteration of the range over the map filesToProcess, in any order
ReplaceFile ==
    /\ rpc = "loop"
    /\ ~cancelled
    /\ \E file \in pending :
          /\ \E step \in {replaceTagsInFile(fs, file, replacements, dryRun)} :
                /\ fs' = step.fs
                /\ rresult' = RecordReplaced(rresult, file, step.err)
          /\ pending' = pending \ {file}
    /\ UNCHANGED <<replacements, cancelled, filesToProcess, rerr, rpc>>
    /\ UNCHANGED <<rootPath, addTags, removeTags, filePaths, dryRun, ops, idx, result,
                   uerr, upc, round, reads, writes, outcomes, fs0, prev>>
    /\ UNCHANGED extractVars
    /\ UNCHANGED scanVars
    /\ UNCHANGED raceVars

\* the loop ends, at the last candidate or at a cancelled context, and the
\* two file lists are sorted
ReplaceReturn ==
    /\ rpc = "loop"
    /\ pending = {} \/ cancelled
    /\ rresult' = [rresult EXCEPT !.ModifiedFiles = SortStrings(@),
                                  !.FailedFiles = SortStrings(@)]
    /\ rpc' = "done"
    /\ UNCHANGED <<replacements, cancelled, filesToProcess, pending, rerr>>
    /\ UNCHANGED updateVars
    /\ UNCHANGED extractVars
    /\ UNCHANGED scanVars
    /\ UNCHANGED raceVars

\* the caller cancels the context
Cancel ==
    /\ rpc \in {"call", "loop"}
    /\ ~cancelled
    /\ cancelled' = TRUE
    /\ UNCHANGED <<replacements, filesToProcess, pending, rresult, rerr, rpc>>
    /\ UNCHANGED updateVars
    /\ UNCHANGED extractVars
    /\ UNCHANGED scanVars
    /\ UNCHANGED raceVars

\* the caller retries a call that ran to its end, with the same arguments
ReplaceAgain ==
    /\ rpc = "done"
    /\ rerr = NoError
    /\ ~cancelled
    /\ round = 1
    /\ round' = 2
    /\ prev' = [prev EXCEPT !.fs = fs]
    /\ fs0' = fs
    /\ filesToProcess' = {}
    /\ pending' = {}
    /\ rresult' = EmptyReplaceResult
    /\ rpc' = "call"
    /\ UNCHANGED <<replacements, cancelled, rerr>>
    /\ UNCHANGED <<fs, rootPath, addTags, removeTags, filePaths, dryRun, ops, idx, result,
                   uerr, upc, reads, writes, outcomes>>
    /\ UNCHANGED extractVars
    /\ UNCHANGED scanVars
    /\ UNCHANGED raceVars

NextReplace == ReplaceStart \/ ReplaceFile \/ ReplaceReturn \/ Cancel \/ ReplaceAgain

-----------------------------------------------------------------------------
(* Documents, paths and tag lists given to UpdateTags                       *)

Root ==
    <<"/","r">>

PathA ==
    <<"a",".","m","d">>

PathB ==
    <<"b",".","m","d">>

PathM ==
    <<"m",".","m","d">>

PathN ==
    <<"n",".","m","d">>

PathS ==
    <<"s",".","m","d">>

\* an entry that leaves the root
PathUp ==
    <<".",".","/","a",".","m","d">>

\* an absolute entry
PathAbs ==
    <<"/","r","/","a",".","m","d">>

\* an entry with a parent-directory segment that Clean resolves
PathDotDot ==
    <<"d","/",".",".","/","a",".","m","d">>

\* metadata blocks
HdrInline ==
    <<"-","-","-","\n","t","a","g","s",":"," ","[","t","]","\n","-","-","-",
      "\n">>

HdrList ==
    <<"-","-","-","\n","k",":"," ","v","\n","t","a","g","s",":","\n"," "," ",
      "-"," ","n","\n"," "," ","-"," ","T","\n","-","-","-","\n">>

HdrOther ==
    <<"-","-","-","\n","k",":"," ","v","\n","-","-","-","\n">>

HdrMalformed ==
    <<"-","-","-","\n","t","a","g","s",":"," ","[","t","\n","-","-","-","\n">>

\* bodies
BodyTagInText ==
    <<"x"," ","#","t">>

BodyLeading ==
    <<"#","t"," ","#","n","\n","x","\n","#","t">>

BodyHyphen ==
    <<"x"," ","#","t","-","n"," ","#","T">>

BodyBlankLeading ==
    <<"\n","#","t","\n","\n","x"," ","#","n">>

BodyRepeated ==
    <<" ","\n","#","t"," ","#","t","\n","#">>

BodyPlain ==
    <<"x">>

AbsA == PathJoin(Root, PathA)

AbsB == PathJoin(Root, PathB)

AbsM == PathJoin(Root, PathM)

AbsS == PathJoin(Root, PathS)

File(content, mode) == [content |-> content, mode |-> mode]

\* all sequences over S of length at most n
SeqsUpTo(S, n) == UNION {[1..k -> S] : k \in 0..n}

ExtractIdle ==
    /\ text = <<>>
    /\ meta = <<>>
    /\ minCount = 0
    /\ scanned = {}
    /\ cfg = DefaultConfig
    /\ out = NoResult
    /\ xpc = "idle"

ReplaceIdle ==
    /\ replacements = <<>>
    /\ cancelled = FALSE
    /\ filesToProcess = {}
    /\ pending = {}
    /\ rresult = EmptyReplaceResult
    /\ rerr = NoError
    /\ rpc = "idle"

ScanIdle ==
    /\ tree = <<>>
    /\ wpos = 1
    /\ visitErr = FALSE
    /\ fileInfo = [Path |-> <<>>, err |-> NoError]
    /\ werr = NoError
    /\ ctxDone = FALSE
    /\ stopped = FALSE
    /\ trace = <<>>
    /\ spc = "idle"

\* no file is held between a read and a write
NoHeld == [path |-> <<>>, content |-> <<>>]

\* no call holds a file and no other writer has written
RaceIdle ==
    /\ uheld = NoHeld
    /\ rheld = NoHeld
    /\ lost = {}
    /\ edits = 0

\* the first call of UpdateTags is about to start
UpdateCallInit ==
    /\ ops = [add |-> <<>>, remove |-> <<>>]
    /\ idx = 1
    /\ result = EmptyResult
    /\ uerr = NoError
    /\ upc = "call"
    /\ round = 1
    /\ reads = {}
    /\ writes = {}
    /\ outcomes = <<>>
    /\ fs0 = fs
    /\ prev = [result |-> EmptyResult, fs |-> fs, outcomes |-> <<>>]

UpdateIdle ==
    /\ fs = <<>>
    /\ rootPath = Root
    /\ addTags = <<>>
    /\ removeTags = <<>>
    /\ filePaths = <<>>
    /\ dryRun = FALSE
    /\ ops = [add |-> <<>>, remove |-> <<>>]
    /\ idx = 1
    /\ result = EmptyResult
    /\ uerr = NoError
    /\ upc = "idle"
    /\ round = 1
    /\ reads = {}
    /\ writes = {}
    /\ outcomes = <<>>
    /\ fs0 = <<>>
    /\ prev = [result |-> EmptyResult, fs |-> <<>>, outcomes |-> <<>>]

(* UpdateTags over lists of files, some of which fail.  b.md is read-only,  *)
(* m.md has a malformed metadata block, s.md is unreadable, n.md is absent. *)

MaxPaths == 2

PathPool == {PathA, PathB, PathM, PathN, PathS, PathUp, PathAbs, PathDotDot}

FilesOps ==
    { [add |-> <<>>, remove |-> <<>>],
      [add |-> << <<"x">> >>, remove |-> <<>>],
      [add |-> <<>>, remove |-> << <<"t">> >>],
      [add |-> << <<"X">> >>, remove |-> << <<"x">> >>] }

InitUpdateFiles ==
    /\ \E ca \in {BodyLeading, HdrInline \o BodyHyphen} :
          fs = (AbsA :> File(ca, "rw")) @@ (AbsB :> File(BodyLeading, "ro"))
               @@ (AbsM :> File(HdrMalformed \o BodyPlain, "rw"))
               @@ (AbsS :> File(BodyTagInText, "noread"))
    /\ rootPath \in {Root, <<"r">>}
    /\ \E o \in FilesOps : addTags = o.add /\ removeTags = o.remove
    /\ filePaths \in SeqsUpTo(PathPool, MaxPaths)
    /\ dryRun \in BOOLEAN
    /\ UpdateCallInit
    /\ ExtractIdle
    /\ ReplaceIdle
    /\ ScanIdle
    /\ RaceIdle

SpecUpdateFiles == InitUpdateFiles /\ [][NextUpdate]_vars

(* UpdateTags on one writable file, over documents and tag lists            *)

MaxTags == 1

TagPool == {<<"t">>, <<"#", "T">>, <<"n">>}

Headers == {<<>>, HdrInline, HdrList, HdrOther}

Bodies == {BodyTagInText, BodyLeading, BodyHyphen, BodyBlankLeading, BodyRepeated,
           BodyPlain, <<>>}

InitUpdateContent ==
    /\ \E h \in Headers, b \in Bodies : fs = (AbsA :> File(h \o b, "rw"))
    /\ rootPath = Root
    /\ addTags \in SeqsUpTo(TagPool, MaxTags)
    /\ removeTags \in SeqsUpTo(TagPool, MaxTags)
    /\ filePaths = <<PathA>>
    /\ dryRun \in BOOLEAN
    /\ UpdateCallInit
    /\ ExtractIdle
    /\ ReplaceIdle
    /\ ScanIdle
    /\ RaceIdle

SpecUpdateContent == InitUpdateContent /\ [][NextUpdate]_vars

-----------------------------------------------------------------------------
(* The extractor applied to bounded texts                                   *)

MaxTextLen == 6

ExtractAlphabet == {"#", "t", "-", "@", " "}

\* a document may open with an inline tags array
ExtractHeaders == {<<>>, <<"t","a","g","s",":"," ","[","t","-","t","]","\n">>}

ExtractTexts ==
    {h \o b : h \in ExtractHeaders,
              b \in UNION {[1..n -> ExtractAlphabet] : n \in 0..MaxTextLen}}

ExtractConfigs == {[DefaultConfig EXCEPT !.MinTagLength = n] : n \in {1, 3}}

InitExtract ==
    /\ text \in ExtractTexts
    /\ meta = <<>>
    /\ minCount = 0
    /\ scanned = {}
    /\ cfg \in ExtractConfigs
    /\ out = NoResult
    /\ xpc = "call"
    /\ UpdateIdle
    /\ ReplaceIdle
    /\ ScanIdle
    /\ RaceIdle

CallExtractTags ==
    /\ xpc = "call"
    /\ out' = ExtractTags(text, cfg)
    /\ xpc' = "done"
    /\ UNCHANGED <<text, meta, minCount, scanned, cfg>>
    /\ UNCHANGED updateVars
    /\ UNCHANGED replaceVars
    /\ UNCHANGED scanVars
    /\ UNCHANGED raceVars

NextExtract == CallExtractTags

SpecExtract == InitExtract /\ [][NextExtract]_vars

\* C5: every tag returned by ExtractTags is judged valid by ValidateTag
C5_FilterParity ==
    xpc = "done" => \A t \in out : ValidateTag(t, cfg).IsValid

\* the words of the text that the hashtag pattern can match and the filter
\* pipeline accepts
MarkerWords ==
    {w \in {SubSeq(text, i + 1, j) : i \in 1..Len(text), j \in 1..Len(text)} :
        /\ w # <<>>
        /\ Contains(text, <<"#">> \o w)
        /\ IsLetter(w[1])
        /\ \A k \in 1..Len(w) : IsWordChar(w[k]) \/ w[k] = "-"
        /\ isValidTag(w, cfg)}

\* "#w" occurs at index i between a permitted predecessor and a permitted
\* successor
GoodOccurrence(w, i) ==
    /\ HasPrefixAt(text, i, <<"#">> \o w)
    /\ i = 1 \/ ~(IsAlnum(text[i - 1]) \/ text[i - 1] \in {"-", "_", "@"})
    /\ i + Len(w) + 1 > Len(text)
       \/ ~(IsAlnum(text[i + Len(w) + 1]) \/ text[i + Len(w) + 1] \in {"-", "_"})

-----------------------------------------------------------------------------
(* Properties of UpdateTags                                                 *)

Indices(s) == [i \in 1..Len(s) |-> i]

\* the positions of filePaths whose entry failed, and those that did not
FailedAt == LET Failed(i) == outcomes[i] # "ok" IN SelectSeq(Indices(outcomes), Failed)

PassedAt == LET Passed(i) == outcomes[i] = "ok" IN SelectSeq(Indices(outcomes), Passed)

PassedPaths == [k \in 1..Len(PassedAt) |-> filePaths[PassedAt[k]]]

FailedPathSet == {filePaths[FailedAt[k]] : k \in 1..Len(FailedAt)}

UpdateLoopEntered ==
    upc = "done" /\ ValidatePath(rootPath) /\ ~ResolveOperations(addTags, removeTags).err

\* C1: a call that gets past the root and conflict checks returns a result and
\* no error; every failing entry has exactly one line "<path>: <reason>" in
\* Errors, in order; the files, ModifiedFiles and the migrated entries that did
\* not fail are what the call over the non-failing entries alone produces
C1_FailureIsolation ==
    UpdateLoopEntered =>
        /\ uerr = NoError
        /\ Len(outcomes) = Len(filePaths)
        /\ Len(result.Errors) = Len(FailedAt)
        /\ \A k \in 1..Len(FailedAt) :
              /\ HasPrefix(result.Errors[k], filePaths[FailedAt[k]] \o <<":", " ">>)
              /\ Len(result.Errors[k]) > Len(filePaths[FailedAt[k]]) + 2
        /\ LET alone == UpdateLoop(fs0, EmptyResult, PassedPaths, rootPath, ops, dryRun)
               NotFailed(f) == f \notin FailedPathSet
           IN  /\ fs = alone.fs
               /\ result.ModifiedFiles = alone.res.ModifiedFiles
               /\ SelectSeq(result.FilesMigrated, NotFailed) = alone.res.FilesMigrated
               /\ alone.res.Errors = <<>>

\* C1 witness: the write of the first entry fails and the entry after it is
\* modified on disk
C1_Witness ==
    /\ upc = "done"
    /\ uerr = NoError
    /\ ~dryRun
    /\ Len(filePaths) = 2
    /\ Len(outcomes) = 2
    /\ outcomes[1] = "write-error" /\ outcomes[2] = "ok"
    /\ Len(result.Errors) = 1
    /\ result.ModifiedFiles = <<filePaths[2]>>
    /\ fs # fs0

\* the tags of one list that no tag of the other list equals, ignoring case and
\* a leading marker
Remaining(mine, other) ==
    {i \in 1..Len(mine) :
        ~\E j \in 1..Len(other) :
            ToLower(normalizeTag(mine[i])) = ToLower(normalizeTag(other[j]))}

NothingRemains ==
    Remaining(addTags, removeTags) = {} /\ Remaining(removeTags, addTags) = {}

ConflictError == ConflictErrorText

\* C2 as stated: whenever nothing remains of either list after the conflicts
\* are removed, the call fails with the conflict error and touches no file
C2_AsStated ==
    (upc = "done" /\ ValidatePath(rootPath) /\ NothingRemains) =>
        uerr = ConflictError /\ reads = {} /\ writes = {}

\* C2: when at least one tag was given and nothing remains of either list
\* after the conflicts are removed, the call fails with the conflict error and
\* no file is read or written
C2_ConflictResolution ==
    (upc = "done" /\ ValidatePath(rootPath) /\ NothingRemains
        /\ (Len(addTags) > 0 \/ Len(removeTags) > 0)) =>
        uerr = ConflictError /\ reads = {} /\ writes = {} /\ fs = fs0
        /\ outcomes = <<>>

\* C2 witness: the two lists hold the same tag in different case
C2_Witness ==
    /\ upc = "done"
    /\ Len(addTags) = 1 /\ Len(removeTags) = 1
    /\ addTags[1] # removeTags[1]
    /\ ToLower(normalizeTag(addTags[1])) = ToLower(normalizeTag(removeTags[1]))
    /\ Len(filePaths) > 0
    /\ uerr = ConflictError
    /\ reads = {}

\* the call was made on the one file a.md, which was read and parsed
OneFileDone ==
    upc = "done" /\ uerr = NoError /\ filePaths = <<PathA>> /\ outcomes = <<"ok">>

\* C6: after a successful non-dry-run call, the same call again adds no tag,
\* lists the file neither in ModifiedFiles nor in FilesMigrated and leaves the
\* content as it was
C6_IdempotentAdds ==
    (round = 2 /\ OneFileDone /\ ~dryRun /\ prev.outcomes = <<"ok">>) =>
        /\ DOMAIN result.TagsAdded = {}
        /\ result.ModifiedFiles = <<>>
        /\ result.FilesMigrated = <<>>
        /\ fs = prev.fs

\* C6 witness: the first call added a tag and migrated the file, the second
\* found nothing to do
C6_Witness ==
    /\ round = 2 /\ OneFileDone /\ ~dryRun
    /\ Len(addTags) > 0
    /\ prev.outcomes = <<"ok">>
    /\ normalizeTag(addTags[1]) \in DOMAIN prev.result.TagsAdded
    /\ prev.result.ModifiedFiles = <<PathA>>
    /\ DOMAIN result.TagsAdded = {}

\* the body of a.md before the call and after it
BodyBefore == parseFrontmatter(fs0[AbsA].content).body

BodyAfter == parseFrontmatter(fs[AbsA].content).body

\* "#tag" stands in the body as a whole hashtag: no tag character follows it
HashtagOccursIn(body, tag) ==
    \E i \in 1..Len(body) :
        /\ HasPrefixAt(body, i, <<"#">> \o tag)
        /\ \/ i + Len(tag) + 1 > Len(body)
           \/ ~(IsAlnum(body[i + Len(tag) + 1]) \/ body[i + Len(tag) + 1] \in {"-", "_"})

RemoveSet == {ops.remove[k] : k \in 1..Len(ops.remove)}

\* C9: after a non-dry-run call no tag of the remove set is left as a hashtag
\* in the body, and a file whose body held one is rewritten and listed in
\* ModifiedFiles, whatever happened to its metadata
C9_BodyStripped ==
    (round = 1 /\ OneFileDone /\ ~dryRun) =>
        \A t \in RemoveSet :
            /\ ~HashtagOccursIn(BodyAfter, t)
            /\ HashtagOccursIn(BodyBefore, t) =>
                  (result.ModifiedFiles = <<PathA>> /\ fs[AbsA].content # fs0[AbsA].content)

\* the hashtags of a body whose tag is none of the removed tags, in order
OtherHashtags(body) ==
    LET Other(h) == \A t \in RemoveSet : ~EqualFold(TrimPrefix(h, <<"#">>), t)
    IN  SelectSeq(FindAllHashtags(body), Other)

\* C10: in a file from which no leading hashtags are migrated, the hashtags of
\* the body whose tag is not removed are the same before and after the call
C10_OtherHashtagsKept ==
    (round = 1 /\ OneFileDone /\ ~dryRun /\ result.FilesMigrated = <<>>) =>
        OtherHashtags(BodyAfter) = OtherHashtags(BodyBefore)

-----------------------------------------------------------------------------
(* DetectTopOfFileHashtags applied to bodies of a few lines                 *)

MaxLines == 3

BodyLines ==
    { <<>>,
      <<" ">>,
      <<"#","a"," ","#","b">>,
      <<"#","c">>,
      <<"x">>,
      <<"#","a"," ","x">>,
      <<"#">>,
      <<" ","#","c"," "," ","#","a">> }

DetectBodies == {Join(ls, "\n") : ls \in SeqsUpTo(BodyLines, MaxLines)}

InitDetect ==
    /\ text \in DetectBodies
    /\ meta = <<>>
    /\ minCount = 0
    /\ scanned = {}
    /\ cfg = DefaultConfig
    /\ out = NoResult
    /\ xpc = "detect"
    /\ UpdateIdle
    /\ ReplaceIdle
    /\ ScanIdle
    /\ RaceIdle

CallDetectTopOfFileHashtags ==
    /\ xpc = "detect"
    /\ out' = DetectTopOfFileHashtags(text)
    /\ xpc' = "detected"
    /\ UNCHANGED <<text, meta, minCount, scanned, cfg>>
    /\ UNCHANGED updateVars
    /\ UNCHANGED replaceVars
    /\ UNCHANGED scanVars
    /\ UNCHANGED raceVars

NextDetect == CallDetectTopOfFileHashtags

SpecDetect == InitDetect /\ [][NextDetect]_vars

IsBlankLine(l) == \A k \in 1..Len(l) : IsSpace(l[k])

IsTagOnlyLine(l) ==
    /\ ~IsBlankLine(l)
    /\ \A k \in 1..Len(l) : (l[k] # "#" /\ ~IsSpace(l[k])) => (k > 1 /\ ~IsSpace(l[k - 1]))

\* the number of lines before the first line that is neither blank nor
\* tag-only; all lines when there is none
LeadingRun(lines) ==
    LET content == {i \in 1..Len(lines) : ~IsBlankLine(lines[i]) /\ ~IsTagOnlyLine(lines[i])}
    IN  IF content = {} THEN Len(lines) ELSE MinOf(content) - 1

\* the marker-prefixed tokens of the leading run, without the marker, in
\* document order; a marker alone names no tag
LeadingTokens(body) ==
    LET lines == Split(body, "\n")
        toks == Fields(Join(SubSeq(lines, 1, LeadingRun(lines)), " "))
        Marked(w) == w[1] = "#" /\ Len(w) > 1
        marked == SelectSeq(toks, Marked)
    IN  [k \in 1..Len(marked) |-> Tail(marked[k])]

\* C7: the migrated tags are exactly the marker-prefixed tokens, in document
\* order, of the lines before the first line that is neither blank nor
\* tag-only, or of all lines when there is no such line
C7_LeadingRun ==
    xpc = "detected" => out = LeadingTokens(text)

\* C7 witness: a tag-only line after the first content line is not collected
C7_Witness ==
    /\ xpc = "detected"
    /\ text = <<"#","a"," ","#","b","\n","x","\n","#","c">>
    /\ out = << <<"a">>, <<"b">> >>

-----------------------------------------------------------------------------
(* ReplaceTagsBatch over three notes below the root and files the walk      *)
(* leaves out                                                               *)

MaxRepl == 1

TagOld ==
    <<"o","l","d">>

TagNew ==
    <<"n","e","w">>

\* note contents
NoteHashtag ==
    <<"#","o","l","d"," ","x">>

NoteArray ==
    <<"-","-","-","\n","t","a","g","s",":"," ","[","o","l","d","]","\n","-",
      "-","-","\n","x"," ","#","o","l","d","-","e","r">>

PathC ==
    <<"c",".","m","d">>

\* files the walk does not scan
PathText ==
    <<"n",".","t","x","t">>

PathGit ==
    <<".","g","i","t","/","g",".","m","d">>

PathDrawing ==
    <<"d",".","e","x","c","a","l","i","d","r","a","w",".","m","d">>

PathOutside ==
    <<"/","q","/","a",".","m","d">>

Pair(old, new) == [OldTag |-> old, NewTag |-> new]

ReplPool == {Pair(TagOld, TagNew), Pair(TagOld, TagOld), Pair(<<"#">> \o TagNew, TagOld)}

\* a note whose inline array holds the tag and a longer tag that begins with it
NoteArrayTwo ==
    <<"-","-","-","\n","t","a","g","s",":"," ","[","o","l","d",","," ","o","l","d",
      "e","r","]","\n","-","-","-","\n","x">>

NoteFiles ==
    {File(NoteHashtag, "rw"), File(NoteHashtag, "ro"), File(NoteArray, "rw"),
     File(NoteArrayTwo, "rw"), File(BodyPlain, "rw")}

OtherFiles ==
    (PathJoin(Root, PathText) :> File(NoteHashtag, "rw"))
    @@ (PathJoin(Root, PathGit) :> File(NoteHashtag, "rw"))
    @@ (PathJoin(Root, PathDrawing) :> File(NoteHashtag, "rw"))
    @@ (PathJoin(Root, PathS) :> File(NoteHashtag, "noread"))
    @@ (PathOutside :> File(NoteHashtag, "rw"))

AbsC == PathJoin(Root, PathC)

InitReplace ==
    /\ \E fa \in NoteFiles, fb \in NoteFiles, fc \in NoteFiles :
          fs = (AbsA :> fa) @@ (AbsB :> fb) @@ (AbsC :> fc) @@ OtherFiles
    /\ rootPath \in {Root, <<"r">>}
    /\ dryRun \in BOOLEAN
    /\ addTags = <<>>
    /\ removeTags = <<>>
    /\ filePaths = <<>>
    /\ ops = [add |-> <<>>, remove |-> <<>>]
    /\ idx = 1
    /\ result = EmptyResult
    /\ uerr = NoError
    /\ upc = "idle"
    /\ round = 1
    /\ reads = {}
    /\ writes = {}
    /\ outcomes = <<>>
    /\ fs0 = fs
    /\ prev = [result |-> EmptyResult, fs |-> <<>>, outcomes |-> <<>>]
    /\ ExtractIdle
    /\ replacements \in SeqsUpTo(ReplPool, MaxRepl)
    /\ cancelled = FALSE
    /\ filesToProcess = {}
    /\ pending = {}
    /\ rresult = EmptyReplaceResult
    /\ rerr = NoError
    /\ rpc = "call"
    /\ ScanIdle
    /\ RaceIdle

SpecReplace == InitReplace /\ [][NextReplace]_vars

ReplaceDone == rpc = "done" /\ rerr = NoError

\* every candidate is in exactly one of the two lists, once
Partitioned ==
    /\ Range(rresult.ModifiedFiles) \cup Range(rresult.FailedFiles) = filesToProcess
    /\ Range(rresult.ModifiedFiles) \cap Range(rresult.FailedFiles) = {}
    /\ Len(rresult.ModifiedFiles) + Len(rresult.FailedFiles) = Cardinality(filesToProcess)

\* every failed file has a line in Errors that begins with its path
FailuresNamed ==
    \A i \in 1..Len(rresult.FailedFiles) :
        \E k \in 1..Len(rresult.Errors) :
            HasPrefix(rresult.Errors[k], rresult.FailedFiles[i] \o <<":", " ">>)

\* the candidates that are written as the replacement leaves them
OthersReplaced ==
    \A f \in Range(rresult.ModifiedFiles) :
        fs[f].content = IF dryRun THEN fs0[f].content
                        ELSE ReplaceAllPairs(fs0[f].content, replacements)

Unwritable == {f \in filesToProcess : fs0[f].mode = "ro"}

\* C3 as stated: without cancellation the candidates are partitioned, failures
\* are named and isolated, and three candidates of which one is unwritable
\* give two modified files and one failed file
C3_AsStated ==
    (ReplaceDone /\ ~cancelled) =>
        /\ Partitioned /\ FailuresNamed /\ OthersReplaced
        /\ (Cardinality(filesToProcess) = 3 /\ Cardinality(Unwritable) = 1) =>
              (Len(rresult.ModifiedFiles) = 2 /\ Len(rresult.FailedFiles) = 1)

\* C3: without cancellation the candidates are partitioned, failures are named
\* and isolated, and in a run that is not a dry run, three candidates of which
\* one is unwritable and would be changed by the replacement give two modified
\* files and one failed file
C3_NonAtomic ==
    (ReplaceDone /\ ~cancelled) =>
        /\ Partitioned /\ FailuresNamed /\ OthersReplaced
        /\ (/\ Cardinality(filesToProcess) = 3
            /\ Cardinality(Unwritable) = 1
            /\ ~dryRun
            /\ \A f \in Unwritable :
                  ReplaceAllPairs(fs0[f].content, replacements) # fs0[f].content) =>
              (/\ Len(rresult.ModifiedFiles) = 2
               /\ Range(rresult.FailedFiles) = Unwritable
               /\ Len(rresult.FailedFiles) = 1)

\* C3 witness: three candidates, the unwritable one failed, the two others
\* were rewritten
C3_Witness ==
    /\ ReplaceDone /\ ~cancelled /\ ~dryRun
    /\ filesToProcess = {AbsA, AbsB, AbsC}
    /\ rresult.FailedFiles = <<AbsB>>
    /\ rresult.ModifiedFiles = <<AbsA, AbsC>>
    /\ fs[AbsA] # fs0[AbsA] /\ fs[AbsC] # fs0[AbsC] /\ fs[AbsB] = fs0[AbsB]

\* C4: FailedFiles and Errors have the same length and Errors[i] is the
\* message recorded for FailedFiles[i]
C4_Aligned ==
    ReplaceDone =>
        /\ Len(rresult.Errors) = Len(rresult.FailedFiles)
        /\ \A i \in 1..Len(rresult.FailedFiles) :
              HasPrefix(rresult.Errors[i], rresult.FailedFiles[i] \o <<":", " ">>)

-----------------------------------------------------------------------------
(* Dry runs of UpdateTags and of ReplaceTagsBatch                           *)

InitDryRun == InitUpdateFiles \/ InitUpdateContent \/ InitReplace

NextDryRun == NextUpdate \/ NextReplace

SpecDryRun == InitDryRun /\ [][NextDryRun]_vars

\* C11: with dry_run set, at every point of a call of UpdateTags or of
\* ReplaceTagsBatch every file has the content it had before the call
C11_DryRunWritesNothing ==
    dryRun =>
        /\ DOMAIN fs = DOMAIN fs0
        /\ \A f \in DOMAIN fs : fs[f].content = fs0[f].content

\* C11 witness: a dry run of UpdateTags has returned and reports a file as
\* modified and migrated, and the file is as it was
C11_Witness ==
    /\ dryRun /\ upc = "done" /\ uerr = NoError
    /\ result.ModifiedFiles # <<>>
    /\ result.FilesMigrated # <<>>
    /\ fs = fs0

-----------------------------------------------------------------------------
(* scanner.go: the sequence returned by ScanDirectory                       *)

\* an entry of trace: ev is "read" (os.ReadFile is called), "record" (yield is
\* called with what ScanFile returned), "error" (yield is called with an empty
\* FileTagInfo and an error), "stop" (the consumer returns false for the first
\* time) or "cancel" (the context is cancelled); entry is the walked entry the
\* event belongs to, <<>> when it belongs to none
Event(ev, entry, err) == [ev |-> ev, entry |-> entry, err |-> err]

\* the index after the entries below the directory t[i], from k on
RECURSIVE SubtreeEnd(_, _, _)
SubtreeEnd(t, i, k) ==
    IF k <= Len(t) /\ HasPrefix(t[k].path, t[i].path \o <<"/">>)
    THEN SubtreeEnd(t, i, k + 1)
    ELSE k

\* the loop over allExcludes finds an exclude in the relative path
ExcludedDir(root, path, c) ==
    \E exclude \in c.ExcludeDirs : Contains(RelPath(root, path), exclude)

\* the callback goes on to ScanFile for a file of this path
Scanned(path, c) ==
    /\ HasSuffix(path, <<".", "m", "d">>)
    /\ \A pattern \in c.ExcludePatterns : ~HasSuffix(Base(path), pattern)

\* the trace after yield was called with event e and the consumer returned b
Yielded(e, b) ==
    trace \o <<e>> \o
        (IF ~b /\ ~stopped THEN <<Event("stop", e.entry, NoError)>> ELSE <<>>)

\* what a call of yield can do besides returning: a range-over-func loop body
\* that has already returned false makes the runtime panic
PanicChoices == IF stopped THEN BOOLEAN ELSE {FALSE}

\* a callback without the check of ctx.Err()
WalkCallback_NoCheck ==
    /\ spc = "walk"
    /\ wpos <= Len(tree)
    /\ spc' = "passed"
    /\ UNCHANGED <<tree, wpos, visitErr, fileInfo, werr, ctxDone, stopped, trace>>
    /\ UNCHANGED <<extractVars, updateVars, replaceVars>>
    /\ UNCHANGED raceVars

\* WalkDir calls the callback for the next entry; the callback starts with
\* the check of ctx.Err()
WalkCallback ==
    /\ spc = "walk"
    /\ wpos <= Len(tree)
    /\ IF ctxDone
       THEN werr' = "context canceled" /\ spc' = "final"
       ELSE spc' = "passed" /\ UNCHANGED werr
    /\ UNCHANGED <<tree, wpos, visitErr, fileInfo, ctxDone, stopped, trace>>
    /\ UNCHANGED <<extractVars, updateVars, replaceVars>>
    /\ UNCHANGED raceVars

\* the callback was given the ReadDir error of a directory: it yields an error
\* record, ignores what yield returns and returns nil; WalkDir leaves the
\* directory
WalkError ==
    /\ spc = "passed"
    /\ visitErr
    /\ \E b \in BOOLEAN, crash \in PanicChoices :
          IF crash
          THEN /\ trace' = Append(trace, Event("error", tree[wpos].path, tree[wpos].err))
               /\ spc' = "panic"
               /\ UNCHANGED <<wpos, visitErr, stopped>>
          ELSE /\ trace' = Yielded(Event("error", tree[wpos].path, tree[wpos].err), b)
               /\ stopped' = (stopped \/ ~b)
               /\ wpos' = SubtreeEnd(tree, wpos, wpos + 1)
               /\ visitErr' = FALSE
               /\ spc' = "walk"
    /\ UNCHANGED <<tree, fileInfo, werr, ctxDone>>
    /\ UNCHANGED <<extractVars, updateVars, replaceVars>>
    /\ UNCHANGED raceVars

\* the rest of the callback up to the call of yield: the excludes, the
\* directories, the extension, the patterns and ScanFile
WalkEntry ==
    /\ spc = "passed"
    /\ ~visitErr
    /\ \E e \in {tree[wpos]} :
          IF ExcludedDir(tree[1].path, e.path, cfg)
          THEN /\ wpos' = IF e.kind = "dir" THEN SubtreeEnd(tree, wpos, wpos + 1)
                          ELSE wpos + 1
               /\ spc' = "walk"
               /\ UNCHANGED <<visitErr, fileInfo, trace>>
          ELSE IF e.kind = "dir"
          THEN /\ visitErr' = (e.err # NoError)
               /\ wpos' = IF e.err # NoError THEN wpos ELSE wpos + 1
               /\ spc' = "walk"
               /\ UNCHANGED <<fileInfo, trace>>
          ELSE IF ~Scanned(e.path, cfg)
          THEN /\ wpos' = wpos + 1
               /\ spc' = "walk"
               /\ UNCHANGED <<visitErr, fileInfo, trace>>
          ELSE /\ trace' = Append(trace, Event("read", e.path, NoError))
               /\ fileInfo' = [Path |-> e.path, err |-> e.err]
               /\ spc' = "yield"
               /\ UNCHANGED <<wpos, visitErr>>
    /\ UNCHANGED <<tree, werr, ctxDone, stopped>>
    /\ UNCHANGED <<extractVars, updateVars, replaceVars>>
    /\ UNCHANGED raceVars

\* yield(fileInfo, err) after ScanFile; false makes the callback return the
\* error "scan terminated by consumer", which ends WalkDir
YieldFile ==
    /\ spc = "yield"
    /\ \E b \in BOOLEAN, crash \in PanicChoices :
          IF crash
          THEN /\ trace' = Append(trace, Event("record", fileInfo.Path, fileInfo.err))
               /\ spc' = "panic"
               /\ UNCHANGED <<wpos, werr, stopped>>
          ELSE /\ trace' = Yielded(Event("record", fileInfo.Path, fileInfo.err), b)
               /\ stopped' = (stopped \/ ~b)
               /\ IF b
                  THEN wpos' = wpos + 1 /\ spc' = "walk" /\ UNCHANGED werr
                  ELSE werr' = "scan terminated by consumer" /\ spc' = "final"
                       /\ UNCHANGED wpos
    /\ UNCHANGED <<tree, visitErr, fileInfo, ctxDone>>
    /\ UNCHANGED <<extractVars, updateVars, replaceVars>>
    /\ UNCHANGED raceVars

\* WalkDir returned an error: yield(FileTagInfo{}, err), then the sequence ends
FinalYield ==
    /\ spc = "final"
    /\ \E b \in BOOLEAN, crash \in PanicChoices :
          IF crash
          THEN /\ trace' = Append(trace, Event("error", <<>>, werr))
               /\ spc' = "panic"
               /\ UNCHANGED stopped
          ELSE /\ trace' = Yielded(Event("error", <<>>, werr), b)
               /\ stopped' = (stopped \/ ~b)
               /\ spc' = "done"
    /\ UNCHANGED <<tree, wpos, visitErr, fileInfo, werr, ctxDone>>
    /\ UNCHANGED <<extractVars, updateVars, replaceVars>>
    /\ UNCHANGED raceVars

\* WalkDir has visited every entry and returns nil: the sequence ends
WalkReturn ==
    /\ spc = "walk"
    /\ wpos > Len(tree)
    /\ spc' = "done"
    /\ UNCHANGED <<tree, wpos, visitErr, fileInfo, werr, ctxDone, stopped, trace>>
    /\ UNCHANGED <<extractVars, updateVars, replaceVars>>
    /\ UNCHANGED raceVars

\* the context is cancelled, at any point of the walk; the event names the
\* entry whose callback is past its check of ctx.Err()
CancelScan ==
    /\ spc \in {"walk", "passed", "yield", "final"}
    /\ ~ctxDone
    /\ ctxDone' = TRUE
    /\ trace' = Append(trace, Event("cancel",
                                    IF spc \in {"passed", "yield"} THEN tree[wpos].path
                                    ELSE <<>>,
                                    NoError))
    /\ UNCHANGED <<tree, wpos, visitErr, fileInfo, werr, stopped, spc>>
    /\ UNCHANGED <<extractVars, updateVars, replaceVars>>
    /\ UNCHANGED raceVars

NextIterator ==
    WalkCallback \/ WalkError \/ WalkEntry \/ YieldFile \/ FinalYield \/ WalkReturn

NextScan == NextIterator \/ CancelScan

(* The directory the sequence walks: the root and up to MaxEntries of the   *)
(* entries below, in the order of WalkDir; a file or a directory may be     *)
(* unreadable.                                                              *)

MaxEntries == 3

PathD ==
    <<"d">>

PathE ==
    <<"d","/","e",".","m","d">>

PathGitDir ==
    <<".","g","i","t">>

ScanEntries ==
    << [idx |-> 1, rel |-> PathGitDir,  kind |-> "dir"],
       [idx |-> 2, rel |-> PathGit,     kind |-> "file"],
       [idx |-> 3, rel |-> PathA,       kind |-> "file"],
       [idx |-> 4, rel |-> PathD,       kind |-> "dir"],
       [idx |-> 5, rel |-> PathE,       kind |-> "file"],
       [idx |-> 6, rel |-> PathDrawing, kind |-> "file"],
       [idx |-> 7, rel |-> PathText,    kind |-> "file"] >>

\* the entries of S, each below an entry of S
TreeShapes ==
    {S \in SUBSET (1..Len(ScanEntries)) :
        /\ Cardinality(S) <= MaxEntries
        /\ (2 \in S => 1 \in S)
        /\ (5 \in S => 4 \in S)}

TreeOf(S, errs) ==
    LET chosen == SelectSeq(ScanEntries, LAMBDA e : e.idx \in S)
    IN  <<[path |-> Root, kind |-> "dir", err |-> NoError]>> \o
        [k \in 1..Len(chosen) |->
            [path |-> PathJoin(Root, chosen[k].rel),
             kind |-> chosen[k].kind,
             err  |-> errs[chosen[k].idx]]]

InitScan ==
    /\ \E S \in TreeShapes :
          \E errs \in [1..Len(ScanEntries) -> {NoError, "permission denied"}] :
              /\ \A i \in 1..Len(ScanEntries) : i \notin S \cap {3, 4} => errs[i] = NoError
              /\ tree = TreeOf(S, errs)
    /\ wpos = 1
    /\ visitErr = FALSE
    /\ fileInfo = [Path |-> <<>>, err |-> NoError]
    /\ werr = NoError
    /\ ctxDone = FALSE
    /\ stopped = FALSE
    /\ trace = <<>>
    /\ spc = "walk"
    /\ ExtractIdle
    /\ UpdateIdle
    /\ ReplaceIdle
    /\ RaceIdle

SpecScan == InitScan /\ [][NextScan]_vars

\* the iterator and its consumer run to the end of the sequence; nothing
\* makes the context be cancelled
SpecScanFair == SpecScan /\ WF_vars(NextIterator)

ScanEnded == spc \in {"done", "panic"}

\* C12: once the consumer has returned false, on a file record or on an error
\* record, no file is read and yield is not called again
C12_ConsumerStops ==
    \A i \in 1..Len(trace) : \A j \in 1..Len(trace) :
        (i < j /\ trace[i].ev = "stop") => trace[j].ev \notin {"read", "record", "error"}

\* the position of the cancellation in trace, 0 before it
CancelAt ==
    IF \E i \in 1..Len(trace) : trace[i].ev = "cancel"
    THEN CHOOSE i \in 1..Len(trace) : trace[i].ev = "cancel"
    ELSE 0

\* the positions of the events of the given kinds after the cancellation
AfterCancel(evs) ==
    {j \in 1..Len(trace) : CancelAt # 0 /\ j > CancelAt /\ trace[j].ev \in evs}

\* after the cancellation: only the entry whose callback was past its check
\* of ctx.Err() is read and yielded, once, and at most one error record that
\* belongs to no entry follows
OnlyEntryInFlight ==
    /\ \A j \in AfterCancel({"read", "record", "error"}) :
          trace[j].entry # <<>> =>
              /\ trace[j].entry = trace[CancelAt].entry
              /\ \A k \in AfterCancel({"error"}) : trace[k].entry = <<>> => j < k
    /\ Cardinality(AfterCancel({"read"})) <= 1
    /\ Cardinality({j \in AfterCancel({"record", "error"}) : trace[j].entry # <<>>}) <= 1
    /\ Cardinality({j \in AfterCancel({"error"}) : trace[j].entry = <<>>}) <= 1

MalformedEntries == {i \in 1..Len(filePaths) : filePaths[i] = PathM}

MalformedError == PathM \o <<":", " ">> \o <<"malformed YAML frontmatter">>

\* the result of the call over the entries other than m.md
WithoutMalformed ==
    UpdateLoop(fs0, EmptyResult, SelectSeq(filePaths, LAMBDA p : p # PathM),
               rootPath, ops, dryRun)

\* C14: a file whose delimited metadata block fails to deserialize is skipped
\* entirely: its content is unchanged, it is in neither ModifiedFiles nor
\* FilesMigrated, the counters TagsAdded and TagsRemoved are those of the call
\* without it, and each entry naming it has exactly one "malformed" error line
C14_MalformedSkipped ==
    UpdateLoopEntered =>
        /\ fs[AbsM] = fs0[AbsM]
        /\ AbsM \notin writes
        /\ \A i \in 1..Len(result.ModifiedFiles) : result.ModifiedFiles[i] # PathM
        /\ result.FilesMigrated = WithoutMalformed.res.FilesMigrated
        /\ result.ModifiedFiles = WithoutMalformed.res.ModifiedFiles
        /\ result.TagsAdded = WithoutMalformed.res.TagsAdded
        /\ result.TagsRemoved = WithoutMalformed.res.TagsRemoved
        /\ Cardinality({k \in 1..Len(result.Errors) : result.Errors[k] = MalformedError})
               = Cardinality(MalformedEntries)

\* C14 witness: a call over m.md and a.md that is not a dry run has returned;
\* a.md was rewritten and is the only modified file, m.md is as it was and has
\* the only error line
C14_Witness ==
    /\ upc = "done" /\ uerr = NoError /\ ~dryRun
    /\ filePaths = <<PathM, PathA>>
    /\ outcomes = <<"malformed", "ok">>
    /\ result.Errors = <<MalformedError>>
    /\ result.ModifiedFiles = <<PathA>>
    /\ fs[AbsM] = fs0[AbsM]
    /\ fs[AbsA] # fs0[AbsA]

\* the entry has a parent-directory segment
HasParentSegment(p) == <<".", ".">> \in Range(Split(p, "/"))

\* C15 as stated: every entry of filePaths that is an absolute path or has a
\* ".." segment gets a per-file error line and no file is read or written for
\* it
C15_AsStated ==
    UpdateLoopEntered =>
        \A i \in 1..Len(filePaths) :
            (IsAbs(filePaths[i]) \/ HasParentSegment(filePaths[i])) =>
                /\ outcomes[i] = "rejected"
                /\ \E k \in 1..Len(result.Errors) :
                      HasPrefix(result.Errors[k], filePaths[i] \o <<":", " ">>)

\* the entry is absolute, or filepath.Clean leaves a ".." segment in it: it
\* names a file outside the root
Escapes(p) == IsAbs(p) \/ HasParentSegment(Clean(p))

\* C15: every entry of filePaths that is an absolute path or that still has a
\* ".." segment once cleaned gets a per-file error line and no file is read or
\* written for it; a call of such entries only reads and writes nothing
C15_EscapingEntriesRejected ==
    UpdateLoopEntered =>
        /\ \A i \in 1..Len(filePaths) :
              Escapes(filePaths[i]) =>
                  /\ outcomes[i] = "rejected"
                  /\ \E k \in 1..Len(result.Errors) :
                        HasPrefix(result.Errors[k], filePaths[i] \o <<":", " ">>)
        /\ (\A i \in 1..Len(filePaths) : Escapes(filePaths[i])) =>
              /\ reads = {} /\ writes = {} /\ fs = fs0
              /\ Len(result.Errors) = Len(filePaths)

\* C15 witness: a call over "../a.md" and "/r/a.md" has returned with one error
\* line for each and without a read
C15_Witness ==
    /\ upc = "done" /\ uerr = NoError /\ ~dryRun
    /\ filePaths = <<PathUp, PathAbs>>
    /\ outcomes = <<"rejected", "rejected">>
    /\ Len(result.Errors) = 2
    /\ HasPrefix(result.Errors[1], PathUp \o <<":", " ">>)
    /\ HasPrefix(result.Errors[2], PathAbs \o <<":", " ">>)
    /\ reads = {} /\ writes = {}

\* C16: a second run of the same replacement that is not a dry run leaves
\* every file with the content it had after the first run
C16_ReplaceIdempotent ==
    (rpc = "done" /\ round = 2 /\ ~dryRun) =>
        \A f \in DOMAIN fs : fs[f].content = prev.fs[f].content

-----------------------------------------------------------------------------
(* serializeFrontmatter followed by parseFrontmatter                        *)

MaxItems == 2

\* a body that begins with a delimited block of its own
BodyDelimited ==
    <<"-","-","-","\n","k",":"," ","v","\n","-","-","-","\n","x">>

\* a body that begins with an empty line
BodyBlankFirst ==
    <<"\n","x">>

FieldKey == <<"k">>

\* tag values: plain, with a space, digits only (written quoted) and empty
TagValues == {StrVal(<<"t">>), StrVal(<<"T"," ","n">>), StrVal(<<"1","2">>), StrVal(<<>>)}

FieldValues ==
    {StrVal(<<"v">>), StrVal(<<"1","2">>), [kind |-> "int", val |-> <<"7">>, items |-> <<>>],
     ListVal(<<StrVal(<<"v">>)>>)}

\* the mappings: with and without tags, with and without another field
Mappings ==
    {<<>>}
    \cup {(TagsKey :> ListVal(q)) : q \in SeqsUpTo(TagValues, MaxItems)}
    \cup {(FieldKey :> v) : v \in FieldValues}
    \cup {(TagsKey :> ListVal(q)) @@ (FieldKey :> v) :
              q \in SeqsUpTo(TagValues, MaxItems), v \in FieldValues}

RoundTripBodies == {<<>>, BodyPlain, BodyLeading, BodyBlankFirst, BodyDelimited}

InitRoundTrip ==
    /\ meta \in Mappings
    /\ minCount = 0
    /\ scanned = {}
    /\ text \in RoundTripBodies
    /\ cfg = DefaultConfig
    /\ out = NoResult
    /\ xpc = "serialize"
    /\ UpdateIdle
    /\ ReplaceIdle
    /\ ScanIdle
    /\ RaceIdle

\* the header of the mapping is written in front of the body and the result
\* is parsed
CallRoundTrip ==
    /\ xpc = "serialize"
    /\ out' = parseFrontmatter(serializeFrontmatter(meta) \o text)
    /\ xpc' = "parsed"
    /\ UNCHANGED <<text, meta, minCount, scanned, cfg>>
    /\ UNCHANGED updateVars
    /\ UNCHANGED replaceVars
    /\ UNCHANGED scanVars
    /\ UNCHANGED raceVars

NextRoundTrip == CallRoundTrip

SpecRoundTrip == InitRoundTrip /\ [][NextRoundTrip]_vars

\* the tag list of a mapping, without its order
TagSetOf(data) ==
    IF TagsKey \in DOMAIN data /\ data[TagsKey].kind = "list"
    THEN Range(data[TagsKey].items)
    ELSE {}

OtherFields(data) == [k \in DOMAIN data \ {TagsKey} |-> data[k]]

SameDocument ==
    /\ ~out.err
    /\ TagSetOf(out.data) = TagSetOf(meta)
    /\ OtherFields(out.data) = OtherFields(meta)
    /\ out.body = text

\* C17: for every mapping and every body, parsing the serialized header
\* followed by the body gives the same tags in any order, the same values of
\* the other fields and the same body
C17_RoundTrip == xpc = "parsed" => SameDocument

-----------------------------------------------------------------------------
(* The metadata block UpdateTags writes                                     *)

\* UpdateTags has rewritten a.md
Rewritten == OneFileDone /\ ~dryRun /\ fs[AbsA].content # fs0[AbsA].content

\* the lines of the metadata block of a text, as parseFrontmatter delimits it
BlockLines(content) ==
    LET lines == Split(content, "\n")
        ends == {i \in 2..Len(lines) : lines[i] = Dashes}
    IN  IF Len(lines) < 3 \/ lines[1] # Dashes \/ ends = {} THEN <<>>
        ELSE SubSeq(lines, 2, MinOf(ends) - 1)

\* every tags line of the block is "tags:" alone, followed by "- value" lines
TagsInListForm(block) ==
    \A i \in 1..Len(block) :
        HasPrefix(block[i], TagsKey \o <<":">>) =>
            /\ block[i] = TagsKey \o <<":">>
            /\ i < Len(block)
            /\ HasPrefix(TrimSpace(block[i + 1]), <<"-", " ">>)

\* C18: whenever UpdateTags rewrites a file, the tags field of the written
\* metadata block is in list form, one "- value" per line, never an inline
\* array, also when every added or migrated tag is removed in the same call
C18_TagsListForm == Rewritten => TagsInListForm(BlockLines(fs[AbsA].content))

FieldsBefore == OtherFields(parseFrontmatter(fs0[AbsA].content).data)

FieldsAfter == OtherFields(parseFrontmatter(fs[AbsA].content).data)

\* C19: for every file UpdateTags rewrites, the fields other than tags of the
\* written metadata block are the fields other than tags of the original
\* block, each with the same value
C19_FieldsPreserved == Rewritten => FieldsAfter = FieldsBefore

\* C19 witness: a file with the field k was rewritten with another tag list
\* and still has the field k with its value
C19_Witness ==
    /\ Rewritten
    /\ FieldKey \in DOMAIN FieldsBefore
    /\ FieldsAfter = FieldsBefore
    /\ TagSetOf(parseFrontmatter(fs[AbsA].content).data)
           # TagSetOf(parseFrontmatter(fs0[AbsA].content).data)

-----------------------------------------------------------------------------
(* manager.go: ListAllTags                                                  *)

\* the tags ListAllTags files one scanned file under
NormalizedTags(content, c) == {normalizeTag(t) : t \in ExtractTags(content, c)}

\* tagCounts after the loop over the sequence: tag -> the files that hold it
TagCounts(fsX, files, c) ==
    [tag \in UNION {NormalizedTags(fsX[f].content, c) : f \in files} |->
        {f \in files : tag \in NormalizedTags(fsX[f].content, c)}]

TagInfo(name, files) ==
    [Name |-> name, Count |-> Cardinality(files), Files |-> SortStrings(SetToSeq(files))]

\* an order that looks at the names only
TagInfoLess_ByName(a, b) == StrLess(a.Name, b.Name)

\* the less function given to sort.Slice
TagInfoLess(a, b) ==
    IF a.Count # b.Count THEN a.Count > b.Count ELSE StrLess(a.Name, b.Name)

RECURSIVE SortTagInfos(_)
\* sort.Slice over records with distinct names
SortTagInfos(S) ==
    IF S = {} THEN <<>>
    ELSE LET first == CHOOSE x \in S : \A y \in S \ {x} : TagInfoLess(x, y)
         IN  <<first>> \o SortTagInfos(S \ {first})

\* the result of ListAllTags when the sequence yielded the files without error
ListAllTags(fsX, files, min, c) ==
    SortTagInfos({TagInfo(tag, TagCounts(fsX, files, c)[tag]) :
                     tag \in {t \in DOMAIN TagCounts(fsX, files, c) :
                                 Cardinality(TagCounts(fsX, files, c)[t]) >= min}})

\* the walked files in the order of WalkDir
WalkOrder(fsX, root, c) == SortStrings(SetToSeq(WalkedFiles(fsX, root, c)))

\* ListAllTags: the root is validated, the sequence is consumed to its end or
\* to the callback at which the context is found cancelled, error records are
\* skipped, and the sorted list is returned
CallListAllTags ==
    /\ xpc = "list"
    /\ IF ~ValidatePath(rootPath)
       THEN /\ out' = "invalid root path"
            /\ UNCHANGED scanned
       ELSE \E walk \in {WalkOrder(fs, rootPath, cfg)} :
               \E n \in 0..Len(walk) :
                   \E yielded \in {{walk[i] : i \in 1..n} \cap {f \in DOMAIN fs : CanRead(fs, f)}} :
                       /\ scanned' = yielded
                       /\ out' = ListAllTags(fs, yielded, minCount, cfg)
    /\ xpc' = "listed"
    /\ UNCHANGED <<text, meta, minCount, cfg>>
    /\ UNCHANGED updateVars
    /\ UNCHANGED replaceVars
    /\ UNCHANGED scanVars
    /\ UNCHANGED raceVars

NextList == CallListAllTags

MaxCount == 2

\* a note with two hashtags
NoteTwoTags ==
    <<"#","n","e","w"," ","#","o","l","d","\n","x">>

ListFiles ==
    {File(NoteHashtag, "rw"), File(NoteArray, "rw"), File(NoteArrayTwo, "rw"),
     File(NoteTwoTags, "rw"), File(NoteTwoTags, "noread"), File(BodyPlain, "rw")}

InitList ==
    /\ \E fa \in ListFiles, fb \in ListFiles, fc \in ListFiles :
          fs = (AbsA :> fa) @@ (AbsB :> fb) @@ (AbsC :> fc) @@ OtherFiles
    /\ rootPath \in {Root, <<"r">>}
    /\ addTags = <<>>
    /\ removeTags = <<>>
    /\ filePaths = <<>>
    /\ dryRun = FALSE
    /\ ops = [add |-> <<>>, remove |-> <<>>]
    /\ idx = 1
    /\ result = EmptyResult
    /\ uerr = NoError
    /\ upc = "idle"
    /\ round = 1
    /\ reads = {}
    /\ writes = {}
    /\ outcomes = <<>>
    /\ fs0 = fs
    /\ prev = [result |-> EmptyResult, fs |-> <<>>, outcomes |-> <<>>]
    /\ text = <<>>
    /\ meta = <<>>
    /\ minCount \in 0..MaxCount
    /\ scanned = {}
    /\ cfg = DefaultConfig
    /\ out = NoResult
    /\ xpc = "list"
    /\ ReplaceIdle
    /\ ScanIdle
    /\ RaceIdle

SpecList == InitList /\ [][NextList]_vars

ListReturned == xpc = "listed" /\ ValidatePath(rootPath)

\* the scanned files whose extracted tag set holds the tag
FilesWith(tag) == {f \in scanned : tag \in ExtractTags(fs[f].content, cfg)}

\* C20: every TagInfo has Count equal to the number of scanned files whose
\* extracted tag set holds the tag, Count = Len(Files) and Count >= min_count;
\* no tag that meets min_count is left out; the list is ordered by Count
\* descending, ties by Name ascending
C20_ListAllTags ==
    ListReturned =>
        /\ \A i \in 1..Len(out) :
              /\ out[i].Count = Cardinality(FilesWith(out[i].Name))
              /\ out[i].Count = Len(out[i].Files)
              /\ Range(out[i].Files) = FilesWith(out[i].Name)
              /\ out[i].Count >= minCount
        /\ \A f \in scanned : \A tag \in ExtractTags(fs[f].content, cfg) :
              Cardinality(FilesWith(tag)) >= minCount =>
                  \E i \in 1..Len(out) : out[i].Name = tag
        /\ \A i \in 1..Len(out) : \A j \in 1..Len(out) :
              i < j => \/ out[i].Count > out[j].Count
                       \/ /\ out[i].Count = out[j].Count
                          /\ StrLess(out[i].Name, out[j].Name)

\* C20 witness: three files were scanned; the list has a tag held by two
\* of them in front of two tags of one file each, in the order of their names
C20_Witness ==
    /\ ListReturned
    /\ scanned = {AbsA, AbsB, AbsC}
    /\ Len(out) = 3
    /\ out[1].Count = 2 /\ Len(out[1].Files) = 2
    /\ out[2].Count = 1 /\ out[3].Count = 1
    /\ StrLess(out[2].Name, out[3].Name)
    /\ minCount = 1

-----------------------------------------------------------------------------
(* Counters and lists of the result of UpdateTags                           *)

\* the entries of a list of paths
PathSet(paths) == {paths[k] : k \in 1..Len(paths)}

\* C21: in the result of UpdateTags, an entry for which an error was recorded
\* (a failed write included) is in neither ModifiedFiles nor FilesMigrated,
\* and TagsAdded and TagsRemoved are what the call over the entries without
\* error alone counts
C21_ErroredFileUncounted ==
    UpdateLoopEntered =>
        /\ FailedPathSet \cap PathSet(result.ModifiedFiles) = {}
        /\ FailedPathSet \cap PathSet(result.FilesMigrated) = {}
        /\ \E alone \in {UpdateLoop(fs0, EmptyResult, PassedPaths, rootPath, ops, dryRun)} :
              /\ result.TagsAdded = alone.res.TagsAdded
              /\ result.TagsRemoved = alone.res.TagsRemoved

-----------------------------------------------------------------------------
(* The filters of the extractor and of the validator on one candidate       *)

MaxChunks == 3

\* the pieces candidates are built from: letters of both cases, a digit, a
\* run of five digits, a word of eleven letters, and a keyword in two cases
Chunks ==
    { <<"x">>, <<"B">>, <<"7">>, <<"1","2","3","4","5">>,
      <<"d","e","s","c","r","i","p","t","i","v","e">>,
      <<"w","i","p">>, <<"W","i","P">> }

RECURSIVE Concat(_)
Concat(parts) == IF Len(parts) = 0 THEN <<>> ELSE parts[1] \o Concat(Tail(parts))

Candidates == {Concat(parts) : parts \in UNION {[1..n -> Chunks] : n \in 1..MaxChunks}}

\* configurations ValidateConfig accepts: min_tag_length >= 1, max_digit_ratio
\* in [0, 1], any list of excluded keywords
FilterConfigs ==
    {[DefaultConfig EXCEPT !.MinTagLength = n, !.RatioNum = r, !.ExcludeKeywords = kw] :
        n \in {1, 3}, r \in {1, 2},
        kw \in {DefaultConfig.ExcludeKeywords, << <<"w","i","p">> >>, << <<"W","i","P">> >>}}

InitFilter ==
    /\ text \in Candidates
    /\ meta = <<>>
    /\ minCount = 0
    /\ scanned = {}
    /\ cfg \in FilterConfigs
    /\ out = NoResult
    /\ xpc = "filter"
    /\ UpdateIdle
    /\ ReplaceIdle
    /\ ScanIdle
    /\ RaceIdle

\* the candidate is written as a hashtag and extracted, passed to the
\* extractor's filter, and validated
CallFilters ==
    /\ xpc = "filter"
    /\ out' = [extracted |-> ExtractTags(<<"#">> \o text, cfg),
               accepted |-> isValidTag(text, cfg),
               validation |-> ValidateTag(text, cfg)]
    /\ xpc' = "filtered"
    /\ UNCHANGED <<text, meta, minCount, scanned, cfg>>
    /\ UNCHANGED updateVars
    /\ UNCHANGED replaceVars
    /\ UNCHANGED scanVars
    /\ UNCHANGED raceVars

NextFilter == CallFilters

SpecFilter == InitFilter /\ [][NextFilter]_vars

\* the length of the longest run of consecutive digits of a candidate
LongestDigitRun(tag) == MaxOf({0} \cup {DigitRun(tag, i) : i \in 1..Len(tag)})

\* the rule of the ID-like filter: a run of more than 4 digits, or the three
\* character classes together in more than 12 characters
IDLikeRule(tag) ==
    \/ LongestDigitRun(tag) > 4
    \/ /\ \E i \in 1..Len(tag) : tag[i] \in UpperChars
       /\ \E i \in 1..Len(tag) : tag[i] \in LowerChars
       /\ \E i \in 1..Len(tag) : tag[i] \in DigitChars
       /\ Len(tag) > 12

\* C22: for every valid configuration, a candidate with a run of more than 4
\* consecutive digits, or with uppercase, lowercase and digits in more than
\* 12 characters, is rejected by the extractor and gets the ID-like issue
\* from the validator, whatever its length
C22_IDLikeRejected ==
    xpc = "filtered" /\ IDLikeRule(text) =>
        /\ ~out.accepted
        /\ text \notin out.extracted
        /\ "id-like" \in out.validation.Issues

\* C23: for every configured excluded keyword, in any letter case, a candidate
\* that contains it when both are compared without regard to case is rejected
\* by the extractor and gets the excluded-keyword issue from the validator
C23_KeywordAnyCase ==
    xpc = "filtered" =>
        \A k \in 1..Len(cfg.ExcludeKeywords) :
            Contains(ToLower(text), ToLower(cfg.ExcludeKeywords[k])) =>
                /\ ~out.accepted
                /\ text \notin out.extracted
                /\ "excluded-keyword" \in out.validation.Issues

-----------------------------------------------------------------------------
(* parseFrontmatter on bounded documents                                    *)

MaxDocLines == 4

\* the lines documents are built from: the delimiter, a field, a line of
\* text, an empty line and a line that does not deserialize
DocLines ==
    { Dashes, <<"k",":"," ","v">>, <<"x">>, <<>>,
      <<"t","a","g","s",":"," ","[","t">> }

Documents == {Join(ls, "\n") : ls \in UNION {[1..n -> DocLines] : n \in 1..MaxDocLines}}

InitParse ==
    /\ text \in Documents
    /\ meta = <<>>
    /\ minCount = 0
    /\ scanned = {}
    /\ cfg = DefaultConfig
    /\ out = NoResult
    /\ xpc = "split"
    /\ UpdateIdle
    /\ ReplaceIdle
    /\ ScanIdle
    /\ RaceIdle

CallParseFrontmatter ==
    /\ xpc = "split"
    /\ out' = parseFrontmatter(text)
    /\ xpc' = "split-done"
    /\ UNCHANGED <<text, meta, minCount, scanned, cfg>>
    /\ UNCHANGED updateVars
    /\ UNCHANGED replaceVars
    /\ UNCHANGED scanVars
    /\ UNCHANGED raceVars

NextParse == CallParseFrontmatter

SpecParse == InitParse /\ [][NextParse]_vars

\* the positions after the first line where a line "---" starts
ClosingAt ==
    {p \in 5..Len(text) :
        /\ HasPrefixAt(text, p, Dashes)
        /\ text[p - 1] = "\n"
        /\ p + 3 > Len(text) \/ text[p + 3] = "\n"}

\* the text begins with a line "---" and a later line is "---"
Delimited == HasPrefixAt(text, 1, Dashes \o <<"\n">>) /\ ClosingAt # {}

\* the text between the first line and the closing line
BlockText == SubSeq(text, 5, MinOf(ClosingAt) - 2)

\* the text after the closing line
AfterBlock == SubSeq(text, MinOf(ClosingAt) + 4, Len(text))

WholeTextAsBody == out = [err |-> FALSE, data |-> <<>>, body |-> text]

\* C24: parseFrontmatter returns empty metadata and the whole text as body,
\* without error, exactly when the text does not begin with a "---" line
\* followed by a later "---" line; otherwise the block between the two lines
\* is the metadata and the text after the closing line is the body, also when
\* nothing follows the closing line or the block is empty
C24_SplitAtDelimiters ==
    xpc = "split-done" =>
        /\ WholeTextAsBody <=> ~Delimited
        /\ Delimited /\ ~out.err =>
              /\ out.body = AfterBlock
              /\ out.data = IF BlockText = <<>> THEN <<>>
                            ELSE YamlUnmarshal(BlockText).map

\* the lines of the body of a.md from the migration boundary on, before the call
LinesFromBoundary ==
    LET lines == Split(BodyBefore, "\n")
    IN  Join(SubSeq(lines, FindFirstNonHashtagContent(BodyBefore) + 1, Len(lines)), "\n")

\* the call migrated the leading hashtags of a.md and removed no tag
MigratedOnly ==
    round = 1 /\ OneFileDone /\ ~dryRun /\ result.FilesMigrated = <<PathA>>
    /\ ops.remove = <<>>

\* C25: when UpdateTags migrates leading hashtags and the remove set is empty,
\* the body lines at or after the migration boundary are the last lines of the
\* written body, unchanged, and only blank text stands before them; a line
\* after the boundary that holds a migrated "#tag" or is tag-only is kept
C25_OnlyLeadingLinesStripped ==
    MigratedOnly =>
        /\ HasSuffix(BodyAfter, LinesFromBoundary)
        /\ \E lead \in {SubSeq(BodyAfter, 1, Len(BodyAfter) - Len(LinesFromBoundary))} :
              /\ \A i \in 1..Len(lead) : lead[i] \in {" ", "\n"}
              /\ lead = <<>> \/ LinesFromBoundary = <<>> \/ lead[Len(lead)] = "\n"

\* C25 witness: the tag t was migrated from the first line, and the tag-only
\* line "#t" after the first line of text is still in the written body
C25_Witness ==
    /\ MigratedOnly
    /\ BodyBefore = BodyLeading
    /\ <<"t">> \in DOMAIN result.TagsAdded
    /\ BodyAfter = <<"x","\n","#","t">>

-----------------------------------------------------------------------------
(* UpdateTags and ReplaceTagsBatch with other writers: each reads a file,   *)
(* computes the new content and writes it back in separate steps, and a     *)
(* concurrent call or an external writer may write the file in between      *)

MaxEdits == 1

HeldFile(path, content) == [path |-> path, content |-> content]

\* a write over a content other than the one read
StaleWrite(op, h, theirs, after, failed) ==
    [op |-> op, path |-> h.path, held |-> h.content, theirs |-> theirs,
     after |-> after, failed |-> failed]

\* the writes of a step that found the file changed since it was read
Stale(fsX, h, op, after, failed) ==
    IF fsX[h.path].content # h.content
    THEN {StaleWrite(op, h, fsX[h.path].content, after, failed)}
    ELSE {}

\* UpdateTags: one loop iteration up to os.ReadFile; a rejected or unreadable
\* entry ends the iteration
UpdateRead ==
    /\ upc = "loop"
    /\ idx <= Len(filePaths)
    /\ uheld = NoHeld
    /\ \E absolutePath \in {PathJoin(rootPath, Clean(filePaths[idx]))},
          early \in {UpdateOneFile(fs, result, filePaths[idx], rootPath, ops, TRUE)} :
          IF early.outcome \in {"rejected", "read-error"}
          THEN /\ result' = early.res
               /\ reads' = reads \cup early.read
               /\ outcomes' = Append(outcomes, early.outcome)
               /\ idx' = idx + 1
               /\ UNCHANGED uheld
          ELSE /\ uheld' = HeldFile(absolutePath, fs[absolutePath].content)
               /\ reads' = reads \cup {absolutePath}
               /\ UNCHANGED <<result, outcomes, idx>>
    /\ UNCHANGED <<fs, rootPath, addTags, removeTags, filePaths, dryRun, ops, uerr, upc,
                   round, writes, fs0, prev>>
    /\ UNCHANGED <<rheld, lost, edits>>
    /\ UNCHANGED extractVars
    /\ UNCHANGED replaceVars
    /\ UNCHANGED scanVars

\* an iteration that compares the file with the content it read before it
\* writes, and reports a change
WriteHeld_Rechecked(fsX, res, filePath, h, o, dry) ==
    IF fsX[h.path].content # h.content
    THEN FileStep(fsX, "write-error", {h.path}, {},
                  RecordError(res, filePath, "file changed"))
    ELSE ProcessedFile(fsX, res, filePath, h.path, ProcessContent(h.content, o), dry)

\* the rest of the iteration: the content step on the content read, the write
WriteHeld(fsX, res, filePath, h, o, dry) ==
    ProcessedFile(fsX, res, filePath, h.path, ProcessContent(h.content, o), dry)

UpdateWrite ==
    /\ upc = "loop"
    /\ uheld # NoHeld
    /\ \E step \in {WriteHeld(fs, result, filePaths[idx], uheld, ops, dryRun)} :
          /\ fs' = step.fs
          /\ result' = step.res
          /\ writes' = writes \cup step.written
          /\ outcomes' = Append(outcomes, step.outcome)
          /\ lost' = lost \cup Stale(fs, uheld, "update", step.fs[uheld.path].content,
                                     step.outcome # "ok")
    /\ idx' = idx + 1
    /\ uheld' = NoHeld
    /\ UNCHANGED <<rootPath, addTags, removeTags, filePaths, dryRun, ops, uerr, upc,
                   round, reads, fs0, prev>>
    /\ UNCHANGED <<rheld, edits>>
    /\ UNCHANGED extractVars
    /\ UNCHANGED replaceVars
    /\ UNCHANGED scanVars

\* replaceTagsInFile up to os.ReadFile, for any candidate not yet visited
ReplaceRead ==
    /\ rpc = "loop"
    /\ ~cancelled
    /\ rheld = NoHeld
    /\ \E file \in pending :
          IF ~CanRead(fs, file)
          THEN /\ rresult' = RecordReplaced(rresult, file, ReadError(fs, file))
               /\ pending' = pending \ {file}
               /\ UNCHANGED rheld
          ELSE /\ rheld' = HeldFile(file, fs[file].content)
               /\ UNCHANGED <<rresult, pending>>
    /\ UNCHANGED <<replacements, cancelled, filesToProcess, rerr, rpc>>
    /\ UNCHANGED <<uheld, lost, edits>>
    /\ UNCHANGED updateVars
    /\ UNCHANGED extractVars
    /\ UNCHANGED scanVars

\* the rest of replaceTagsInFile: the substitutions on the content read, and
\* the write when they changed it
WriteHeldReplaced(fsX, h, modifiedContent, dry) ==
    IF modifiedContent # h.content /\ ~dry
    THEN IF fsX[h.path].mode = "ro"
         THEN [fs |-> fsX, err |-> "permission denied"]
         ELSE [fs |-> [fsX EXCEPT ![h.path].content = modifiedContent], err |-> NoError]
    ELSE [fs |-> fsX, err |-> NoError]

ReplaceWrite ==
    /\ rpc = "loop"
    /\ rheld # NoHeld
    /\ \E step \in {WriteHeldReplaced(fs, rheld, ReplaceAllPairs(rheld.content, replacements),
                                      dryRun)} :
          /\ fs' = step.fs
          /\ rresult' = RecordReplaced(rresult, rheld.path, step.err)
          /\ lost' = lost \cup Stale(fs, rheld, "replace", step.fs[rheld.path].content,
                                     step.err # NoError)
    /\ pending' = pending \ {rheld.path}
    /\ rheld' = NoHeld
    /\ UNCHANGED <<replacements, cancelled, filesToProcess, rerr, rpc>>
    /\ UNCHANGED <<rootPath, addTags, removeTags, filePaths, dryRun, ops, idx, result,
                   uerr, upc, round, reads, writes, outcomes, fs0, prev>>
    /\ UNCHANGED <<uheld, edits>>
    /\ UNCHANGED extractVars
    /\ UNCHANGED scanVars

\* what an editor outside the two calls writes
ExternalEdits == {<<"#","o","l","d"," ","y">>, <<"y">>}

\* another writer replaces the content of a file while a call is in its loop
ExternalWrite ==
    /\ upc = "loop" \/ rpc = "loop"
    /\ edits < MaxEdits
    /\ \E f \in {AbsA, AbsC}, c \in ExternalEdits :
          /\ c # fs[f].content
          /\ fs' = [fs EXCEPT ![f].content = c]
    /\ edits' = edits + 1
    /\ UNCHANGED <<rootPath, addTags, removeTags, filePaths, dryRun, ops, idx, result,
                   uerr, upc, round, reads, writes, outcomes, fs0, prev>>
    /\ UNCHANGED <<uheld, rheld, lost>>
    /\ UNCHANGED extractVars
    /\ UNCHANGED replaceVars
    /\ UNCHANGED scanVars

NextRace ==
    \/ UpdateStart \/ UpdateRead \/ UpdateWrite \/ UpdateReturn
    \/ ReplaceStart \/ ReplaceRead \/ ReplaceWrite \/ ReplaceReturn
    \/ ExternalWrite

\* both calls are about to start on the same two writable notes
InitRace ==
    /\ \E c \in {NoteHashtag, BodyPlain} :
          fs = (AbsA :> File(NoteHashtag, "rw")) @@ (AbsC :> File(c, "rw"))
    /\ rootPath = Root
    /\ addTags = << <<"n">> >>
    /\ removeTags \in {<<>>, <<TagOld>>}
    /\ filePaths \in {<<PathA>>, <<PathA, PathC>>, <<PathN>>}
    /\ dryRun \in BOOLEAN
    /\ UpdateCallInit
    /\ ExtractIdle
    /\ replacements = <<Pair(TagOld, TagNew)>>
    /\ cancelled = FALSE
    /\ filesToProcess = {}
    /\ pending = {}
    /\ rresult = EmptyReplaceResult
    /\ rerr = NoError
    /\ rpc = "call"
    /\ ScanIdle
    /\ uheld = NoHeld
    /\ rheld = NoHeld
    /\ lost = {}
    /\ edits = 0

SpecRace == InitRace /\ [][NextRace]_vars

\* what the call that made a stale write computes from the content it read
ComputedFrom(w) ==
    IF w.op = "update" THEN ProcessContent(w.held, ops).newContent
    ELSE ReplaceAllPairs(w.held, replacements)

\* C26: when another writer changes a file between the read and the write of
\* UpdateTags or of ReplaceTagsBatch, and the call has a change to write, the
\* write goes through: the file holds what the call computed from the content
\* it read, the other writer's content is gone, and no error is recorded for
\* the file
C26_LostUpdate ==
    \A w \in lost :
        (~dryRun /\ ComputedFrom(w) # w.held) =>
            /\ ~w.failed
            /\ w.after = ComputedFrom(w)
            /\ \A k \in 1..Len(result.Errors) : ~Contains(result.Errors[k], Base(w.path))
            /\ \A k \in 1..Len(rresult.Errors) : ~Contains(rresult.Errors[k], Base(w.path))
            /\ w.path \notin Range(rresult.FailedFiles)

\* C26 witness: both calls have returned without error, and each of them
\* overwrote a content another writer had put in the file after its read
C26_Witness ==
    /\ upc = "done" /\ rpc = "done"
    /\ uerr = NoError /\ rerr = NoError
    /\ result.Errors = <<>> /\ rresult.Errors = <<>>
    /\ \E u \in lost, r \in lost :
          /\ u.op = "update" /\ r.op = "replace"
          /\ u.after # u.theirs /\ r.after # r.theirs
          /\ u.after = ComputedFrom(u) /\ r.after = ComputedFrom(r)

-----------------------------------------------------------------------------
(* The result of a dry run of UpdateTags                                    *)

\* the first call ran without dry_run to its end and none of its writes failed
RealRunDone ==
    /\ UpdateLoopEntered
    /\ round = 1
    /\ ~dryRun
    /\ \A i \in 1..Len(outcomes) : outcomes[i] # "write-error"

\* C27: for the same arguments and the same initial files, when no write
\* fails, the result of UpdateTags with dry_run set is the result of the call
\* without dry_run, in all five fields
C27_DryRunSameResult ==
    RealRunDone =>
        result = UpdateLoop(fs0, EmptyResult, filePaths, rootPath, ops, TRUE).res

-----------------------------------------------------------------------------
(* The paths UpdateTags gives to os.ReadFile and os.WriteFile               *)

\* the cleaned path is the cleaned root or lies below it
InsideRoot(root, p) ==
    \/ Clean(p) = Clean(root)
    \/ HasPrefix(Clean(p), IF Clean(root) = <<"/">> THEN <<"/">> ELSE Clean(root) \o <<"/">>)

\* C28: every path UpdateTags reads or writes, cleaned, lies lexically inside
\* the root directory, for every root and every list of entries
C28_PathConfinement ==
    \A p \in reads \cup writes : InsideRoot(rootPath, p)

\* C28 witness: of the entries "d/../a.md" and "../a.md" the first was read
\* and written as a.md below the root and the second was rejected without a
\* read
C28_Witness ==
    /\ upc = "done" /\ uerr = NoError /\ ~dryRun
    /\ filePaths = <<PathDotDot, PathUp>>
    /\ outcomes = <<"ok", "rejected">>
    /\ reads = {AbsA}
    /\ writes = {AbsA}
    /\ fs[AbsA] # fs0[AbsA]

\* C29: in every result of UpdateTags each file adds at most 1 to the count
\* of a tag in TagsAdded and in TagsRemoved, so no count exceeds the number of
\* entries of the call, also when a tag stands more than once among the
\* leading hashtags of a file or is already in its metadata
C29_CountsAreFiles ==
    UpdateLoopEntered =>
        /\ \A t \in DOMAIN result.TagsAdded : result.TagsAdded[t] <= Len(filePaths)
        /\ \A t \in DOMAIN result.TagsRemoved : result.TagsRemoved[t] <= Len(filePaths)

-----------------------------------------------------------------------------
(* What ReplaceTagsBatch leaves alone                                       *)

\* the old tags of the replacement list, as replaceTagsInFile normalizes them
OldTags == {normalizeTag(replacements[k].OldTag) : k \in 1..Len(replacements)}

\* the entries of the tags field of a document, in order
TagEntries(content) ==
    IF parseFrontmatter(content).err THEN <<>>
    ELSE CurrentTags(parseFrontmatter(content).data)

\* every element of the first list that is not an old tag stands unchanged at
\* the same position of the second
OthersUnchanged(before, after, marker) ==
    /\ Len(after) = Len(before)
    /\ \A i \in 1..Len(before) :
          TrimPrefix(before[i], marker) \notin OldTags => after[i] = before[i]

\* C30: after ReplaceTagsBatch, in every file, every hashtag whose tag is not
\* the old tag of a pair (a tag that starts with an old tag followed by a
\* hyphen included) and every entry of the tags array other than an old tag
\* is unchanged
C30_OnlyAskedTagsChanged ==
    (ReplaceDone /\ round = 1) =>
        \A f \in DOMAIN fs :
            /\ OthersUnchanged(FindAllHashtags(fs0[f].content),
                               FindAllHashtags(fs[f].content), <<"#">>)
            /\ OthersUnchanged(TagEntries(fs0[f].content), TagEntries(fs[f].content), <<>>)

====
